---- MODULE Spec2Model ----
(***************************************************************************)
(* Fantasy-winner finalizer and weekly ranking of the pick'em league.      *)
(*                                                                         *)
(* The races table, the results table and the picks table are the shared   *)
(* state.  The cron batch (finalizeDueRaceWinners) and one admin server    *)
(* action at a time run as processes whose steps are the single SQL        *)
(* statements they issue; setRaceArchivedAction is one statement and may   *)
(* run between any two steps.  Time is counted in minutes.                 *)
(***************************************************************************)
EXTENDS Integers, Sequences, FiniteSets, TLC

\* ---------------------------------------------------------------- bounds
MaxClock == 30
TickMinutes == 15
MaxPicks == 3

\* ------------------------------------------------------ program constants
AUTO_WINNER_DELAY_MINUTES == 15
BATCH_LIMIT == 100
NULL == -1
ERROR == -2
POSITIVE_INFINITY == 1000000
NEGATIVE_INFINITY == -1000000
NOT_NUMERIC == -3
DB_ERROR == -4
HIGHEST_POSSIBLE_SCORE == 201
LOWEST_POSSIBLE_SCORE == 202

\* The rows of the model: two races, three profiles, twelve drivers (two per
\* group: group g holds drivers 2g-1 and 2g).
RaceIds == {1, 2}
Users == {1, 2, 3}
Drivers == 1 .. 12

VARIABLES
  races,          \* races table: per race id the archive flag and winner fields
  results,        \* results table: per race, driver id -> points (NULL: no row)
  picks,          \* picks table: per race the pick rows, in storage order
  profiles,       \* profiles table: user id -> team name (names in collation order)
  officialSpeed,  \* races.official_winning_average_speed (NULL when unset)
  driverGroupById, \* drivers table: driver id -> group_number (NULL: no row)
  clock,          \* Date.now(), in minutes
  cronPc,         \* finalizeDueRaceWinners: "idle", "calc" or "write"
  cronNow,        \* nowIso of the last select
  cronPending,    \* pendingRaces of the run in progress
  cronIdx,        \* position of the loop in pendingRaces
  cronW,          \* winnerProfileId computed for the race at cronIdx
  cronResult,     \* processedRaceCount of the last run; ERROR, DB_ERROR when it threw
  admPc,          \* the admin action in progress: "idle", "manual", "finalize", "schedule"
  admRace,        \* its race
  admArg,         \* its winner_profile_id
  admW,           \* winnerProfileId its finalizeRaceWinnerNow computed
  admResult,      \* how the last admin action ended: its name and whether it threw
  manualSince,    \* per race: the manual winner set since the last recompute request
  lastSave,       \* per race: time of the last successful schedule after a results save
  finCount,       \* per race: finalizations in a row with no data change (0, 1, 2)
  cronDirty,      \* results changed between the cron finalize's read and its write
  quiet,          \* nothing was written since the last cron run returned
  rankIn,         \* the rows and the target handed to the weekly ranking
  calcOut,        \* what the last stand-alone computation returned
  remRows,        \* pick_reminders table: the rows, one per key at most
  remRun,         \* per sendDuePickReminders run in progress: its position and locals
  delivered,      \* per reminder key: messages the mail service accepted
  subPc,          \* per user: saveWeeklyPickAction "idle" or "checked" (before its upsert)
  subForm,        \* per user: the form of the submission in progress
  lastAccepted,   \* per race and user: the form of the last upsert that returned no error
  driverStanding  \* drivers table: driver id -> current_standing

vars == << races, results, picks, profiles, officialSpeed, driverGroupById, clock,
           cronPc, cronNow, cronPending, cronIdx, cronW, cronResult,
           admPc, admRace, admArg, admW, admResult,
           manualSince, lastSave, finCount, cronDirty, quiet, rankIn, calcOut,
           remRows, remRun, delivered, subPc, subForm, lastAccepted, driverStanding >>

dataVars == << picks, profiles, officialSpeed, driverGroupById >>
cronVars == << cronPc, cronNow, cronPending, cronIdx, cronW, cronResult >>
admVars == << admPc, admRace, admArg, admW, admResult >>
histVars == << manualSince, lastSave, finCount >>
pureVars == << rankIn, calcOut >>
remVars == << remRows, remRun, delivered >>
subVars == << subPc, subForm, lastAccepted >>
sideVars == << remVars, subVars, driverStanding >>

\* ------------------------------------------------------- weekly ranking
Abs(x) == IF x < 0 THEN 0 - x ELSE x

\* String.prototype.localeCompare on team names; names are numbered in
\* collation order, so the sign of the difference is the comparison.
localeCompare(a, b) == a - b

speedDeltaForSort(guess, officialRaceAverageSpeed) ==
  IF guess = NULL \/ officialRaceAverageSpeed = NULL
    THEN POSITIVE_INFINITY
    ELSE Abs(guess - officialRaceAverageSpeed)

\* Mutant: the remaining rows ordered by team name alone.
compareByTeamNameOnly(a, b) == localeCompare(a.teamName, b.teamName)

\* Mutant: the remaining rows ordered by points alone.
compareByPointsOnly(a, b) == b.points - a.points

compareByPointsThenTeamName(a, b) ==
  IF b.points # a.points
    THEN b.points - a.points
    ELSE localeCompare(a.teamName, b.teamName)

\* A variant that ranks the leaders by team name alone.
compareTopTieByTeamNameOnly(a, b, officialRaceAverageSpeed) ==
  localeCompare(a.teamName, b.teamName)

compareTopTieByOfficialSpeedThenTeamName(a, b, officialRaceAverageSpeed) ==
  LET aDelta == speedDeltaForSort(a.averageSpeed, officialRaceAverageSpeed)
      bDelta == speedDeltaForSort(b.averageSpeed, officialRaceAverageSpeed)
  IN  IF aDelta # bDelta
        THEN aDelta - bDelta
        ELSE localeCompare(a.teamName, b.teamName)

\* Array.prototype.sort: a stable sort.  compare[j, i] is the comparator's
\* value on the elements at positions j and i.  Element i lands after every
\* element that compares smaller and after every equal element before it.
\* A JavaScript array holds its elements once they are built: the sequence
\* with every element evaluated.
ArrayOf(s) == s \o << >>

StableSort(s, compare) ==
  LET n == Len(s)
      pos(i) == 1 + Cardinality({ j \in 1 .. n :
                     \/ compare[j, i] < 0
                     \/ (compare[j, i] = 0 /\ j < i) })
  IN  ArrayOf([ k \in 1 .. n |-> s[CHOOSE i \in 1 .. n : pos(i) = k] ])

RECURSIVE ReduceMaxPoints(_, _)
ReduceMaxPoints(rows, max) ==
  IF rows = << >>
    THEN max
    ELSE ReduceMaxPoints(Tail(rows),
                         IF Head(rows).points > max THEN Head(rows).points ELSE max)

buildOrderedWeeklyRows(rows, officialRaceAverageSpeed) ==
  IF Len(rows) = 0
    THEN << >>
    ELSE
      LET topPoints == ReduceMaxPoints(rows, NEGATIVE_INFINITY)
          topRows == SelectSeq(rows, LAMBDA row : row.points = topPoints)
          remainingRows == SelectSeq(rows, LAMBDA row : row.points # topPoints)
          orderedTopRows ==
            IF Len(topRows) > 1
              THEN StableSort(topRows,
                     [ i, j \in 1 .. Len(topRows) |->
                         compareTopTieByOfficialSpeedThenTeamName(
                           topRows[i], topRows[j], officialRaceAverageSpeed) ])
              ELSE topRows
          orderedRemainingRows ==
            StableSort(remainingRows,
              [ i, j \in 1 .. Len(remainingRows) |->
                  compareByPointsThenTeamName(remainingRows[i], remainingRows[j]) ])
      IN  orderedTopRows \o orderedRemainingRows

\* Mutant: every row gets its position as rank, ties or not.
assignWeeklyRanksByPosition(rows, officialRaceAverageSpeed) ==
  LET sorted == buildOrderedWeeklyRows(rows, officialRaceAverageSpeed)
  IN  [ i \in 1 .. Len(sorted) |-> sorted[i] @@ [ rank |-> i ] ]

\* rankAt[index] is the rank the forEach pushes for sorted[index]; the row
\* before it supplies previousPoints and previousRank.
assignWeeklyRanks(rows, officialRaceAverageSpeed) ==
  LET sorted == buildOrderedWeeklyRows(rows, officialRaceAverageSpeed)
  IN  IF Len(sorted) = 0
        THEN << >>
        ELSE
          LET topPoints == sorted[1].points
              topTieCount == Len(SelectSeq(sorted, LAMBDA row : row.points = topPoints))
              rankAt[index \in 1 .. Len(sorted)] ==
                IF topTieCount > 1 /\ sorted[index].points = topPoints
                  THEN index
                  ELSE IF index > 1 /\ sorted[index].points = sorted[index - 1].points
                    THEN rankAt[index - 1]
                    ELSE index
          IN  ArrayOf([ index \in 1 .. Len(sorted) |-> sorted[index] @@ [ rank |-> rankAt[index] ] ])

\* ------------------------------------------------------ winner computation
\* toNumber: a number is returned as it is; a string that does not parse
\* (NOT_NUMERIC) becomes 0.  picks.average_speed is a numeric column.
toNumber(value) == IF value = NOT_NUMERIC THEN 0 ELSE value

\* pointsByDriverId.get(driverId) ?? 0
PointsOrZero(pointsByDriverId, driverId) ==
  IF pointsByDriverId[driverId] = NULL THEN 0 ELSE pointsByDriverId[driverId]

scorePick(pick, pointsByDriverId) ==
    PointsOrZero(pointsByDriverId, pick.drivers[1])
  + PointsOrZero(pointsByDriverId, pick.drivers[2])
  + PointsOrZero(pointsByDriverId, pick.drivers[3])
  + PointsOrZero(pointsByDriverId, pick.drivers[4])
  + PointsOrZero(pointsByDriverId, pick.drivers[5])
  + PointsOrZero(pointsByDriverId, pick.drivers[6])

\* teamNameByUserId.get(pick.user_id) ?? `Team-${pick.user_id.slice(0, 8)}`:
\* one fallback name per user; in the numbering of names used here they
\* come after the stored team names.
TeamNameOf(teamNameByUserId, userId) ==
  IF teamNameByUserId[userId] = NULL THEN 100 + userId ELSE teamNameByUserId[userId]

WinnerRows(pickRows, pointsByDriverId, teamNameByUserId) ==
  [ i \in 1 .. Len(pickRows) |->
      [ averageSpeed |-> toNumber(pickRows[i].average_speed),
        points |-> scorePick(pickRows[i], pointsByDriverId),
        teamName |-> TeamNameOf(teamNameByUserId, pickRows[i].user_id),
        userId |-> pickRows[i].user_id ] ]

calculateRaceWinnerProfileId(pickRows, pointsByDriverId, officialWinningAverageSpeed, teamNameByUserId) ==
  IF Len(pickRows) = 0
    THEN NULL
    ELSE
      LET ranked == buildOrderedWeeklyRows(
                      WinnerRows(pickRows, pointsByDriverId, teamNameByUserId),
                      officialWinningAverageSpeed)
      IN  IF Len(ranked) >= 1 THEN ranked[1].userId ELSE NULL

\* The winner calculateRaceWinnerProfileId reads from the tables for one race.
WinnerOfRace(r) ==
  calculateRaceWinnerProfileId(picks[r], results[r], officialSpeed[r], profiles)

\* ------------------------------------------------------------ races rows
\* A race row as createRaceAction inserts it: the column defaults.
NewRace ==
  [ isArchived |-> FALSE,
    winnerProfileId |-> NULL,
    winnerSource |-> "auto",
    winnerIsManualOverride |-> FALSE,
    winnerAutoEligibleAt |-> NULL,
    winnerSetAt |-> NULL ]

\* Mutant: the conditional updates without their is_archived filter.
MatchesAnyRace(race) == TRUE

\* .eq("is_archived", false) of the two conditional updates
MatchesNotArchived(race) == race.isArchived = FALSE

\* The update payload of scheduleRaceWinnerAutoCalculation.
ScheduleUpdate(race, now) ==
  [ race EXCEPT !.winnerAutoEligibleAt = now + AUTO_WINNER_DELAY_MINUTES,
                !.winnerIsManualOverride = FALSE ]

\* Mutant: finalizing sets a new eligibility time instead of clearing it.
FinalizeUpdateReschedules(race, winnerProfileId, now) ==
  [ race EXCEPT !.winnerAutoEligibleAt = now + AUTO_WINNER_DELAY_MINUTES,
                !.winnerIsManualOverride = FALSE,
                !.winnerProfileId = winnerProfileId,
                !.winnerSetAt = IF winnerProfileId # NULL THEN now ELSE NULL,
                !.winnerSource = "auto" ]

\* Mutant: finalizing leaves the manual-override flag as it is.
FinalizeUpdateKeepsOverride(race, winnerProfileId, now) ==
  [ race EXCEPT !.winnerAutoEligibleAt = NULL,
                !.winnerProfileId = winnerProfileId,
                !.winnerSetAt = IF winnerProfileId # NULL THEN now ELSE NULL,
                !.winnerSource = "auto" ]

\* Mutant: finalizing leaves the eligibility time as it is.
FinalizeUpdateKeepsEligibility(race, winnerProfileId, now) ==
  [ race EXCEPT !.winnerIsManualOverride = FALSE,
                !.winnerProfileId = winnerProfileId,
                !.winnerSetAt = IF winnerProfileId # NULL THEN now ELSE NULL,
                !.winnerSource = "auto" ]

\* The update payload of finalizeRaceWinnerNow.
FinalizeUpdate(race, winnerProfileId, now) ==
  [ race EXCEPT !.winnerAutoEligibleAt = NULL,
                !.winnerIsManualOverride = FALSE,
                !.winnerProfileId = winnerProfileId,
                !.winnerSetAt = IF winnerProfileId # NULL THEN now ELSE NULL,
                !.winnerSource = "auto" ]

\* The update payload of setRaceWinnerAction with an explicit winner.
ManualWinnerUpdate(race, winnerProfileId, now) ==
  [ race EXCEPT !.winnerAutoEligibleAt = NULL,
                !.winnerIsManualOverride = TRUE,
                !.winnerProfileId = winnerProfileId,
                !.winnerSetAt = now,
                !.winnerSource = "manual" ]

\* Mutant: archiving leaves the eligibility time as it is.
ArchiveUpdateKeepsEligibility(race, shouldArchive) ==
  [ race EXCEPT !.isArchived = shouldArchive ]

\* The update payload of setRaceArchivedAction.
ArchiveUpdate(race, shouldArchive) ==
  [ race EXCEPT !.isArchived = shouldArchive,
                !.winnerAutoEligibleAt = IF shouldArchive THEN NULL ELSE @ ]

\* Mutant: the select without its winner_auto_eligible_at <= now filter.
IsDueIgnoringTime(race, nowIso) ==
  /\ race.isArchived = FALSE
  /\ race.winnerIsManualOverride = FALSE
  /\ race.winnerAutoEligibleAt # NULL

\* Mutant: the select with lt in place of lte on winner_auto_eligible_at.
IsDueStrictlyBefore(race, nowIso) ==
  /\ race.isArchived = FALSE
  /\ race.winnerIsManualOverride = FALSE
  /\ race.winnerAutoEligibleAt # NULL
  /\ race.winnerAutoEligibleAt < nowIso

\* The selection predicate of finalizeDueRaceWinners.
IsDue(race, nowIso) ==
  /\ race.isArchived = FALSE
  /\ race.winnerIsManualOverride = FALSE
  /\ race.winnerAutoEligibleAt # NULL
  /\ race.winnerAutoEligibleAt <= nowIso

Min(a, b) == IF a < b THEN a ELSE b

\* What the select of finalizeDueRaceWinners may return: the due races in
\* ascending winner_auto_eligible_at order (rows with equal times in either
\* order), cut to the first BATCH_LIMIT.
SelectDueRaces(rs, nowIso) ==
  LET due == { r \in RaceIds : IsDue(rs[r], nowIso) }
      n == Min(Cardinality(due), BATCH_LIMIT)
  IN  { s \in [1 .. n -> due] :
          /\ \A i, j \in 1 .. n : i < j =>
               /\ s[i] # s[j]
               /\ rs[s[i]].winnerAutoEligibleAt <= rs[s[j]].winnerAutoEligibleAt
          /\ \A r \in due : (\A i \in 1 .. n : s[i] # r) =>
               \A i \in 1 .. n :
                 rs[s[i]].winnerAutoEligibleAt <= rs[r].winnerAutoEligibleAt }

\* ------------------------------------------------------- the tables' rows
PickRow(userId, averageSpeed, drivers) ==
  [ user_id |-> userId, average_speed |-> averageSpeed, drivers |-> drivers ]

NoResults == [ d \in Drivers |-> NULL ]

\* Race 1 has two picks that differ in the group-1 driver; race 2 has none.
WorkflowPicks ==
  [ r \in RaceIds |->
      IF r = 1
        THEN << PickRow(1, 10, << 1, 3, 5, 7, 9, 11 >>),
                PickRow(2, 12, << 2, 3, 5, 7, 9, 11 >>) >>
        ELSE << >> ]

WorkflowProfiles == [ u \in Users |-> CASE u = 1 -> 2 [] u = 2 -> 1 [] OTHER -> 3 ]

\* Group g holds the drivers 2g - 1 and 2g.
WorkflowDrivers == [ d \in Drivers |-> (d + 1) \div 2 ]

WorkflowOfficialSpeed == [ r \in RaceIds |-> IF r = 1 THEN 10 ELSE NULL ]

\* What the admin submits: single results, pasted result tables, winners.
UpsertInputs == { << 1, 2, 2 >>, << 2, 1, 1 >> }
ImportInputs == { << 1, [ d \in {1, 2} |-> IF d = 1 THEN 3 ELSE 2 ] >> }
ManualInputs == { << 1, 3 >> }
RecomputeInputs == { 1 }
ArchiveInputs == { 1 }

NoRanking == [ rows |-> << >>, target |-> NULL ]

AdminIdle(name, ok) == [ name |-> name, ok |-> ok ]

\* The statement itself failed: { error } of the supabase call is set.
AdminDbError(name) == [ name |-> name, ok |-> FALSE, dbError |-> TRUE ]

\* A statement either runs or fails with an error and writes nothing.
DbOutcomes == { "ok", "error" }

\* Mutant: the route answers ok whatever the batch did.
handleCronRequestAlwaysOk(result) ==
  [ status |-> 200, ok |-> TRUE, processedRaceCount |-> result ]

\* handleCronRequest of an authorized request, from what finalizeDueRaceWinners
\* returned or threw.
handleCronRequest(result) ==
  IF result = ERROR \/ result = DB_ERROR
    THEN [ status |-> 500, ok |-> FALSE, processedRaceCount |-> NULL ]
    ELSE [ status |-> 200, ok |-> TRUE, processedRaceCount |-> result ]

\* ------------------------------------------------- pick_reminders rows
HOUR_MS == 60
DAY_MS == 24 * HOUR_MS

\* REMINDER_WINDOWS, the times in minutes.
REMINDER_WINDOWS ==
  << [ key |-> "2h", maxMsUntilDeadline |-> 2 * HOUR_MS, minExclusiveMsUntilDeadline |-> 0 ],
     [ key |-> "2d", maxMsUntilDeadline |-> 2 * DAY_MS,
       minExclusiveMsUntilDeadline |-> 2 * HOUR_MS ],
     [ key |-> "4d", maxMsUntilDeadline |-> 4 * DAY_MS,
       minExclusiveMsUntilDeadline |-> 2 * DAY_MS ] >>

ReminderTypes == { REMINDER_WINDOWS[i].key : i \in 1 .. Len(REMINDER_WINDOWS) }

ReminderChannels == { "email", "sms" }

\* The columns of the unique index that makes a second insert fail with 23505.
ReminderKeys == RaceIds \X Users \X ReminderTypes \X ReminderChannels

\* The two cron invocations that may overlap.
ReminderRuns == { 1, 2 }

\* A run that is not in progress, after n finished runs.
ReminderRunIdle(n, reason) ==
  [ pc |-> "idle", raceId |-> NULL, reminderType |-> "none", missing |-> << >>,
    idx |-> 0, channel |-> "none", runs |-> n, reason |-> reason ]

\* ----------------------------------------------------- the picks form
NoForm == [ raceId |-> NULL, averageSpeed |-> NULL, drivers |-> << >> ]

SideIdle ==
  /\ remRows = { }
  /\ remRun = [ p \in ReminderRuns |-> ReminderRunIdle(0, "none") ]
  /\ delivered = [ k \in ReminderKeys |-> 0 ]
  /\ subPc = [ u \in Users |-> "idle" ]
  /\ subForm = [ u \in Users |-> NoForm ]
  /\ lastAccepted = [ r \in RaceIds |-> [ u \in Users |-> << >> ] ]
  /\ driverStanding = [ d \in Drivers |-> d ]

\* Finalizations in a row, counted up to two.
Again(n) == IF n < 2 THEN n + 1 ELSE 2

Init ==
  /\ races = [ r \in RaceIds |-> NewRace ]
  /\ results = [ r \in RaceIds |-> NoResults ]
  /\ picks = WorkflowPicks
  /\ profiles = WorkflowProfiles
  /\ officialSpeed = WorkflowOfficialSpeed
  /\ driverGroupById = WorkflowDrivers
  /\ clock = 0
  /\ cronPc = "idle" /\ cronNow = NULL /\ cronPending = << >> /\ cronIdx = 0
  /\ cronW = NULL /\ cronResult = NULL
  /\ admPc = "idle" /\ admRace = NULL /\ admArg = NULL /\ admW = NULL
  /\ admResult = AdminIdle("none", TRUE)
  /\ manualSince = [ r \in RaceIds |-> NULL ]
  /\ lastSave = [ r \in RaceIds |-> NULL ]
  /\ finCount = [ r \in RaceIds |-> 0 ]
  /\ cronDirty = FALSE
  /\ quiet = FALSE
  /\ SideIdle
  /\ rankIn = NoRanking
  /\ calcOut = << >>

\* ------------------------------------------------------------ the clock
Tick ==
  /\ clock + TickMinutes <= MaxClock
  /\ clock' = clock + TickMinutes
  /\ UNCHANGED << races, results, dataVars, cronVars, admVars, histVars,
                  cronDirty, quiet, pureVars, sideVars >>

\* ------------------------------------------------- setRaceArchivedAction
SetRaceArchived(r, shouldArchive) ==
  /\ races' = [ races EXCEPT ![r] = ArchiveUpdate(@, shouldArchive) ]
  /\ finCount' = [ finCount EXCEPT ![r] = 0 ]
  /\ quiet' = FALSE
  /\ UNCHANGED << results, dataVars, clock, cronVars, admVars, manualSince, lastSave,
                  cronDirty, pureVars, sideVars >>

\* --------------------------------------------------- setRaceWinnerAction
\* ensureRaceIsActive passed and the winner's profile was found.
AdminSetWinnerStart(r, w) ==
  /\ admPc = "idle"
  /\ races[r].isArchived = FALSE
  /\ profiles[w] # NULL
  /\ admPc' = "manual" /\ admRace' = r /\ admArg' = w /\ admW' = NULL
  /\ admResult' = AdminIdle("none", TRUE)
  /\ UNCHANGED << races, results, dataVars, clock, cronVars, histVars,
                  cronDirty, quiet, pureVars, sideVars >>

\* The update with the explicit winner: .eq("id", selectedRaceId) only.
AdminManualWrite ==
  /\ admPc = "manual"
  /\ races' = [ races EXCEPT ![admRace] = ManualWinnerUpdate(@, admArg, clock) ]
  /\ manualSince' = [ manualSince EXCEPT ![admRace] = admArg ]
  /\ finCount' = [ finCount EXCEPT ![admRace] = 0 ]
  /\ quiet' = FALSE
  /\ admPc' = "idle" /\ admRace' = NULL /\ admArg' = NULL /\ admW' = NULL
  /\ admResult' = AdminIdle("manual", TRUE)
  /\ UNCHANGED << results, dataVars, clock, cronVars, lastSave, cronDirty, pureVars, sideVars >>

\* No winner given: ensureRaceIsActive passed, finalizeRaceWinnerNow has read
\* the picks, the results and the profiles and computed the winner.
AdminRecomputeStart(r) ==
  /\ admPc = "idle"
  /\ races[r].isArchived = FALSE
  /\ admPc' = "finalize" /\ admRace' = r /\ admArg' = NULL
  /\ admW' = WinnerOfRace(r)
  /\ admResult' = AdminIdle("none", TRUE)
  /\ manualSince' = [ manualSince EXCEPT ![r] = NULL ]
  /\ UNCHANGED << races, results, dataVars, clock, cronVars, lastSave, finCount,
                  cronDirty, quiet, pureVars, sideVars >>

\* The conditional update of finalizeRaceWinnerNow, called by the action.
AdminFinalizeWrite ==
  /\ admPc = "finalize"
  /\ \E outcome \in DbOutcomes :
       IF outcome = "error"
         THEN /\ admResult' = AdminDbError("finalize")
              /\ UNCHANGED << races, finCount, quiet >>
         ELSE IF MatchesNotArchived(races[admRace])
           THEN /\ races' = [ races EXCEPT ![admRace] = FinalizeUpdate(@, admW, clock) ]
                /\ finCount' = [ finCount EXCEPT ![admRace] = Again(@) ]
                /\ quiet' = FALSE
                /\ admResult' = AdminIdle("finalize", TRUE)
           ELSE /\ admResult' = AdminIdle("finalize", FALSE)
                /\ UNCHANGED << races, finCount, quiet >>
  /\ admPc' = "idle" /\ admRace' = NULL /\ admArg' = NULL /\ admW' = NULL
  /\ UNCHANGED << results, dataVars, clock, cronVars, manualSince, lastSave,
                  cronDirty, pureVars, sideVars >>

\* ------------------------------ upsertResultAction, importIndycarResultsAction
\* The results of race r change while the cron finalizer holds a winner it
\* computed from the old ones.
DirtyAfterSave(r) ==
  IF cronPc = "write" /\ cronPending[cronIdx] = r THEN TRUE ELSE cronDirty

RECURSIVE SumSeq(_)
SumSeq(s) == IF s = << >> THEN 0 ELSE Head(s) + SumSeq(Tail(s))

\* driverGroupForIndex, of the 0-based place in the ranking.
driverGroupForIndex(index) ==
  CASE index < 4 -> 1 [] index < 8 -> 2 [] index < 12 -> 3 [] index < 16 -> 4
    [] index < 20 -> 5 [] OTHER -> 6

\* refreshDriverChampionshipPointsFromResults: championship_points of every
\* driver, the sum of the points of the driver's result rows of all races.
championshipPointsFromResults(res) ==
  [ d \in Drivers |->
      SumSeq([ r \in 1 .. Cardinality(DOMAIN res) |->
                 IF res[r][d] = NULL THEN 0 ELSE res[r][d] ]) ]

\* The 0-based place of a driver in rankedActiveDrivers: championship_points
\* descending, then current_standing ascending, then the name (the id here).
rankedDriverIndex(points, standing, d) ==
  Cardinality({ e \in Drivers :
                  \/ points[e] > points[d]
                  \/ points[e] = points[d] /\ standing[e] < standing[d]
                  \/ points[e] = points[d] /\ standing[e] = standing[d] /\ e < d })

\* refreshDriverStandingsAndGroups, every driver active: the new
\* current_standing and group_number of each driver.
refreshDriverStandingsAndGroups(points, standing) ==
  CHOOSE refreshed \in
    { [ current_standing |-> [ d \in Drivers |-> index[d] + 1 ] \o << >>,
        group_number |-> [ d \in Drivers |-> driverGroupForIndex(index[d]) ] \o << >> ] :
      index \in { [ d \in Drivers |-> rankedDriverIndex(points, standing, d) ] \o << >> } } :
    TRUE

\* The drivers table after the refresh that follows a results save.
RefreshedDrivers(res) ==
  CHOOSE refreshed \in
    { refreshDriverStandingsAndGroups(points, driverStanding) :
        points \in { championshipPointsFromResults(res) \o << >> } } : TRUE

\* ensureRaceIsActive passed, the result row was upserted and the drivers'
\* championship points, standings and groups were refreshed.
AdminSaveResult(r, d, p) ==
  /\ admPc = "idle"
  /\ races[r].isArchived = FALSE
  /\ results' = [ results EXCEPT ![r][d] = p ]
  /\ \E refreshed \in { RefreshedDrivers([ results EXCEPT ![r][d] = p ]) } :
       /\ driverStanding' = refreshed.current_standing
       /\ driverGroupById' = refreshed.group_number
  /\ admPc' = "schedule" /\ admRace' = r /\ admArg' = NULL /\ admW' = NULL
  /\ admResult' = AdminIdle("none", TRUE)
  /\ finCount' = [ finCount EXCEPT ![r] = 0 ]
  /\ cronDirty' = DirtyAfterSave(r)
  /\ quiet' = FALSE
  /\ UNCHANGED << races, picks, profiles, officialSpeed, clock, cronVars, manualSince,
                  lastSave, pureVars, remVars, subVars >>

\* ensureRaceIsActive passed, the pasted rows were upserted in one statement
\* and the drivers were refreshed.
AdminImportResults(r, payload) ==
  /\ admPc = "idle"
  /\ races[r].isArchived = FALSE
  /\ results' = [ results EXCEPT ![r] =
                    [ d \in Drivers |-> IF d \in DOMAIN payload THEN payload[d] ELSE @[d] ] ]
  /\ \E refreshed \in { RefreshedDrivers([ results EXCEPT ![r] =
         [ d \in Drivers |-> IF d \in DOMAIN payload THEN payload[d] ELSE @[d] ] ]) } :
       /\ driverStanding' = refreshed.current_standing
       /\ driverGroupById' = refreshed.group_number
  /\ admPc' = "schedule" /\ admRace' = r /\ admArg' = NULL /\ admW' = NULL
  /\ admResult' = AdminIdle("none", TRUE)
  /\ finCount' = [ finCount EXCEPT ![r] = 0 ]
  /\ cronDirty' = DirtyAfterSave(r)
  /\ quiet' = FALSE
  /\ UNCHANGED << races, picks, profiles, officialSpeed, clock, cronVars, manualSince,
                  lastSave, pureVars, remVars, subVars >>

\* The conditional update of scheduleRaceWinnerAutoCalculation that ends both.
AdminSchedule ==
  /\ admPc = "schedule"
  /\ \E outcome \in DbOutcomes :
       IF outcome = "error"
         THEN /\ admResult' = AdminDbError("schedule")
              /\ UNCHANGED << races, lastSave, finCount >>
         ELSE IF MatchesNotArchived(races[admRace])
           THEN /\ races' = [ races EXCEPT ![admRace] = ScheduleUpdate(@, clock) ]
                /\ lastSave' = [ lastSave EXCEPT ![admRace] = clock ]
                /\ finCount' = [ finCount EXCEPT ![admRace] = 0 ]
                /\ admResult' = AdminIdle("schedule", TRUE)
           ELSE /\ admResult' = AdminIdle("schedule", FALSE)
                /\ UNCHANGED << races, lastSave, finCount >>
  /\ quiet' = FALSE
  /\ admPc' = "idle" /\ admRace' = NULL /\ admArg' = NULL /\ admW' = NULL
  /\ UNCHANGED << results, dataVars, clock, cronVars, manualSince,
                  cronDirty, pureVars, sideVars >>

\* ------------------------------------------------- finalizeDueRaceWinners
\* The select; with no row the function returns at once.
CronSelect ==
  /\ cronPc = "idle"
  /\ \E s \in SelectDueRaces(races, clock) :
       IF Len(s) = 0
         THEN /\ cronPc' = "idle" /\ cronIdx' = 0 /\ cronResult' = 0
              /\ cronPending' = << >> /\ quiet' = TRUE
         ELSE /\ cronPc' = "calc" /\ cronIdx' = 1 /\ cronResult' = NULL
              /\ cronPending' = s /\ quiet' = quiet
  /\ cronNow' = clock
  /\ cronW' = NULL
  /\ UNCHANGED << races, results, dataVars, clock, admVars, histVars,
                  cronDirty, pureVars, sideVars >>

\* finalizeRaceWinnerNow of the next pending race: calculateRaceWinnerProfileId.
CronCalc ==
  /\ cronPc = "calc"
  /\ cronW' = WinnerOfRace(cronPending[cronIdx])
  /\ cronPc' = "write"
  /\ cronDirty' = FALSE
  /\ UNCHANGED << races, results, dataVars, clock, cronNow, cronPending, cronIdx,
                  cronResult, admVars, histVars, quiet, pureVars, sideVars >>

\* finalizeRaceWinnerNow of the next pending race: the conditional update.  A
\* refused update throws out of the loop; after the last race the count returns.
CronWrite ==
  /\ cronPc = "write"
  /\ \E outcome \in DbOutcomes :
       LET r == cronPending[cronIdx] IN
       IF outcome = "ok" /\ MatchesNotArchived(races[r])
         THEN /\ races' = [ races EXCEPT ![r] = FinalizeUpdate(@, cronW, clock) ]
              /\ finCount' = [ finCount EXCEPT ![r] = IF cronDirty THEN 0 ELSE Again(@) ]
              /\ IF cronIdx = Len(cronPending)
                   THEN /\ cronPc' = "idle" /\ cronResult' = Len(cronPending)
                        /\ cronIdx' = 0 /\ cronPending' = << >> /\ quiet' = TRUE
                   ELSE /\ cronPc' = "calc" /\ cronResult' = cronResult
                        /\ cronIdx' = cronIdx + 1 /\ cronPending' = cronPending
                        /\ quiet' = FALSE
         ELSE /\ cronPc' = "idle"
              /\ cronResult' = IF outcome = "error" THEN DB_ERROR ELSE ERROR
              /\ cronIdx' = 0 /\ cronPending' = << >> /\ quiet' = FALSE
              /\ UNCHANGED << races, finCount >>
  /\ cronW' = NULL
  /\ cronDirty' = FALSE
  /\ UNCHANGED << results, dataVars, clock, cronNow, admVars, manualSince, lastSave,
                  pureVars, sideVars >>

Next ==
  \/ Tick
  \/ \E r \in ArchiveInputs, shouldArchive \in BOOLEAN : SetRaceArchived(r, shouldArchive)
  \/ \E in \in ManualInputs : AdminSetWinnerStart(in[1], in[2])
  \/ AdminManualWrite
  \/ \E r \in RecomputeInputs : AdminRecomputeStart(r)
  \/ AdminFinalizeWrite
  \/ \E in \in UpsertInputs : AdminSaveResult(in[1], in[2], in[3])
  \/ \E in \in ImportInputs : AdminImportResults(in[1], in[2])
  \/ AdminSchedule
  \/ CronSelect
  \/ CronCalc
  \/ CronWrite

Spec == Init /\ [][Next]_vars

\* ------------------------------------------------------ lib/scoring: helpers
\* asNumber: a number as it is; null, undefined and a string that does not
\* parse become 0.
asNumber(value) == IF value = NULL \/ value = NOT_NUMERIC THEN 0 ELSE value

SetMax(S) == CHOOSE x \in S : \A y \in S : y <= x
SetMin(S) == CHOOSE x \in S : \A y \in S : x <= y

\* A const of the source is computed once and then named: Only({ F(v) : v \in
\* { e } }) is F of the value of e.
Only(S) == CHOOSE x \in S : TRUE

compareLeaderboardRows(a, b) ==
  IF b.totalPoints # a.totalPoints
    THEN b.totalPoints - a.totalPoints
    ELSE IF b.racePoints # a.racePoints
      THEN b.racePoints - a.racePoints
      ELSE localeCompare(a.teamName, b.teamName)

\* Mutant: the rank shared on an equal cumulative total alone.
RanksOfSortedByTotal(sorted) ==
  LET rankAt[index \in 1 .. Len(sorted)] ==
        IF index > 1 /\ sorted[index - 1].totalPoints = sorted[index].totalPoints
          THEN rankAt[index - 1]
          ELSE index
  IN  ArrayOf([ index \in 1 .. Len(sorted) |-> sorted[index] @@ [ rank |-> rankAt[index] ] ])

\* The forEach of assignCompetitionRanks: rankAt[index] is the rank pushed for
\* sorted[index]; sorted[index - 1] supplies previous and previousRank.
RanksOfSorted(sorted) ==
  LET rankAt[index \in 1 .. Len(sorted)] ==
        IF /\ index > 1
           /\ sorted[index - 1].totalPoints = sorted[index].totalPoints
           /\ sorted[index - 1].racePoints = sorted[index].racePoints
          THEN rankAt[index - 1]
          ELSE index
  IN  ArrayOf([ index \in 1 .. Len(sorted) |-> sorted[index] @@ [ rank |-> rankAt[index] ] ])

assignCompetitionRanks(rows) ==
  Only({ RanksOfSorted(sorted) :
           sorted \in { StableSort(rows, [ i, j \in 1 .. Len(rows) |->
                                            compareLeaderboardRows(rows[i], rows[j]) ]) } })

\* Mutant: plain competition ranks, the rows tied at the top share rank 1.
WeeklyRanksOfSortedShared(sorted) ==
  ArrayOf([ index \in 1 .. Len(sorted) |->
    sorted[index] @@
      [ rank |-> 1 + Cardinality({ j \in 1 .. Len(sorted) :
                                     sorted[j].points > sorted[index].points }) ] ])

\* The forEach of assignWeeklyRaceRanks over the ordered rows.
WeeklyRanksOfSorted(sorted) ==
  IF Len(sorted) = 0
    THEN << >>
    ELSE
      LET topPoints == sorted[1].points
          topTieCount == Len(SelectSeq(sorted, LAMBDA row : row.points = topPoints))
          rankAt[index \in 1 .. Len(sorted)] ==
            IF topTieCount > 1 /\ sorted[index].points = topPoints
              THEN index
              ELSE IF index > 1 /\ sorted[index].points = sorted[index - 1].points
                THEN rankAt[index - 1]
                ELSE index
      IN  ArrayOf([ index \in 1 .. Len(sorted) |-> sorted[index] @@ [ rank |-> rankAt[index] ] ])

\* The copy of assignWeeklyRanks in lib/scoring, on rows that carry racePoints.
assignWeeklyRaceRanks(rows, officialRaceAverageSpeed) ==
  Only({ WeeklyRanksOfSorted(sorted) :
           sorted \in { Only({ buildOrderedWeeklyRows(withPoints, officialRaceAverageSpeed) :
                                 withPoints \in { ArrayOf([ i \in 1 .. Len(rows) |->
                                   rows[i] @@ [ points |-> rows[i].racePoints ] ]) } }) } })

\* scorePick of lib/scoring; resultPointsByDriver is the part of
\* resultPointsByRaceDriver for the pick's race.
scoreRacePick(pick, resultPointsByDriver) ==
  [ averageSpeed |-> asNumber(pick.average_speed),
    racePoints |->
      SumSeq([ k \in 1 .. 6 |->
                 IF resultPointsByDriver[pick.drivers[k]] = NULL
                   THEN 0
                   ELSE resultPointsByDriver[pick.drivers[k]] ]) ]

\* Mutant: the floor taken over all posted results, not group by group.
computeRaceExtremesUngrouped(raceResults, groupById) ==
  LET posted == { raceResults[d] : d \in { x \in DOMAIN raceResults : raceResults[x] # NULL } }
  IN  [ highest |-> IF posted = {} THEN 0 ELSE SetMax(posted),
        lowest |-> IF posted = {} THEN 0 ELSE SetMin(posted) ]

\* pointsByGroup holds, per group 1..6, the posted points of the drivers the
\* drivers table puts in that group; a group without any adds nothing.
computeRaceExtremes(raceResults, groupById) ==
  LET pointsByGroup(group) ==
        { asNumber(raceResults[d]) :
            d \in { x \in DOMAIN raceResults :
                      raceResults[x] # NULL /\ groupById[x] = group } }
  IN  [ highest |-> SumSeq([ group \in 1 .. 6 |->
                      IF pointsByGroup(group) = {} THEN 0 ELSE SetMax(pointsByGroup(group)) ]),
        lowest |-> SumSeq([ group \in 1 .. 6 |->
                      IF pointsByGroup(group) = {} THEN 0 ELSE SetMin(pointsByGroup(group)) ]) ]

\* ------------------------------------------- lib/scoring: what the queries load
\* profiles ordered by team_name, without the rows whose team name is blank.
Participants ==
  LET named == SelectSeq([ u \in 1 .. Cardinality(DOMAIN profiles) |-> u ],
                         LAMBDA u : profiles[u] # NULL)
      byName == StableSort(named, [ i, j \in 1 .. Len(named) |->
                                      localeCompare(profiles[named[i]], profiles[named[j]]) ])
  IN  ArrayOf([ i \in 1 .. Len(byName) |->
                 [ id |-> byName[i], teamName |-> profiles[byName[i]] ] ])

\* The races that are not archived, by race_date ascending (race ids are
\* numbered in date order).
ActiveRacesByDate ==
  SelectSeq([ i \in 1 .. Cardinality(DOMAIN races) |-> i ], LAMBDA r : ~races[r].isArchived)

\* resultsByRace has a key for the race.
HasResults(r) == \E d \in DOMAIN results[r] : results[r][d] # NULL

completedRaces == SelectSeq(ActiveRacesByDate, HasResults)

\* pickScoreByRaceUser.has(keyForRaceUser(r, userId))
hasPickScore(r, userId) ==
  HasResults(r) /\ \E i \in 1 .. Len(picks[r]) : picks[r][i].user_id = userId

\* pickScoreByRaceUser.get(keyForRaceUser(r, userId)), where the map has the key.
pickScoreByRaceUser(r, userId) ==
  LET own == SelectSeq(picks[r], LAMBDA pick : pick.user_id = userId)
  IN  Only({ scoreRacePick(pick, results[r]) : pick \in { own[Len(own)] } })

lowestFallbackByRaceId(r) == computeRaceExtremes(results[r], driverGroupById).lowest

\* weekly?.racePoints ?? missingPickRacePoints
weeklyPointsOf(r, userId) ==
  IF hasPickScore(r, userId)
    THEN pickScoreByRaceUser(r, userId).racePoints
    ELSE lowestFallbackByRaceId(r)

\* weekly?.averageSpeed ?? null
weeklyAverageSpeedOf(r, userId) ==
  IF hasPickScore(r, userId)
    THEN pickScoreByRaceUser(r, userId).averageSpeed
    ELSE NULL

\* weeklyPoints of the k-th completed race for the i-th participant.
WeeklyTable(participants, completed) ==
  ArrayOf([ k \in 1 .. Len(completed) |->
              ArrayOf([ i \in 1 .. Len(participants) |->
                          weeklyPointsOf(completed[k], participants[i].id) ]) ])

\* cumulativeByUser after the k-th completed race for the i-th participant.
CumulativeTable(weekly) ==
  ArrayOf([ k \in 1 .. Len(weekly) |->
              ArrayOf([ i \in 1 .. Len(weekly[k]) |->
                          SumSeq([ q \in 1 .. k |-> weekly[q][i] ]) ]) ])

\* ranked of the k-th completed race.
RankedTable(participants, weekly, cumulative) ==
  ArrayOf([ k \in 1 .. Len(weekly) |->
              Only({ assignCompetitionRanks(rankingInput) :
                       rankingInput \in { ArrayOf([ i \in 1 .. Len(participants) |->
                         [ racePoints |-> weekly[k][i],
                           teamName |-> participants[i].teamName,
                           totalPoints |-> cumulative[k][i],
                           userId |-> participants[i].id ] ]) } }) ])

\* What the race loop leaves behind: the weekly points, the running totals
\* and the ranked rows of every completed race.
LoopTablesOfCumulative(participants, completed, weekly, cumulative) ==
  [ participants |-> participants,
    completedRaces |-> completed,
    weekly |-> weekly,
    cumulative |-> cumulative,
    ranked |-> RankedTable(participants, weekly, cumulative) ]

LoopTablesOfWeekly(participants, completed, weekly) ==
  Only({ LoopTablesOfCumulative(participants, completed, weekly, cumulative) :
           cumulative \in { CumulativeTable(weekly) } })

LoopTablesOf(participants, completed) ==
  Only({ LoopTablesOfWeekly(participants, completed, weekly) :
           weekly \in { WeeklyTable(participants, completed) } })

LoopTables ==
  Only({ LoopTablesOf(participants, completed) :
           participants \in { Participants }, completed \in { completedRaces } })

\* standingByRaceUser.get(keyForRaceUser(completedRaces[k], userId)), from
\* the ranked rows of that race.
standingByRaceUser(ranked, userId) ==
  ranked[CHOOSE i \in 1 .. Len(ranked) : ranked[i].userId = userId].rank

compareFinalLeaderboardRows(a, b) ==
  IF a.currentStanding # b.currentStanding
    THEN a.currentStanding - b.currentStanding
    ELSE IF b.totalPoints # a.totalPoints
      THEN b.totalPoints - a.totalPoints
      ELSE localeCompare(a.teamName, b.teamName)

\* Mutant: the standing before the latest race is taken from the first race.
PreviousStandingFromFirstRace(t, i) ==
  IF Len(t.completedRaces) > 1
    THEN standingByRaceUser(t.ranked[1], t.participants[i].id)
    ELSE NULL

\* previousRace ? standingByRaceUser.get(...) : null
PreviousStanding(t, i) ==
  IF Len(t.completedRaces) > 1
    THEN standingByRaceUser(t.ranked[Len(t.completedRaces) - 1], t.participants[i].id)
    ELSE NULL

LeaderboardRowOfStandings(t, i, currentStanding, previousStanding) ==
  LET n == Len(t.completedRaces)
      baselinePrevious == IF previousStanding # NULL THEN previousStanding ELSE currentStanding
      change == baselinePrevious - currentStanding
  IN  [ change |-> change,
        currentStanding |-> currentStanding,
        previousStanding |-> previousStanding,
        raceBreakdown |-> [ r \in { t.completedRaces[k] : k \in 1 .. n } |->
                              t.weekly[CHOOSE k \in 1 .. n : t.completedRaces[k] = r][i] ],
        teamName |-> t.participants[i].teamName,
        totalPoints |-> t.cumulative[n][i],
        trend |-> IF change > 0 THEN "up" ELSE IF change < 0 THEN "down" ELSE "flat",
        userId |-> t.participants[i].id ]

\* One row of leaderboardRows, before the sort.
LeaderboardRow(t, i) ==
  Only({ LeaderboardRowOfStandings(t, i, currentStanding, previousStanding) :
           currentStanding \in { standingByRaceUser(t.ranked[Len(t.completedRaces)],
                                                    t.participants[i].id) },
           previousStanding \in { PreviousStanding(t, i) } })

latestRaceRows(t) ==
  Only({ buildOrderedWeeklyRows(rows,
           IF officialSpeed[t.completedRaces[Len(t.completedRaces)]] = NULL
             THEN NULL
             ELSE asNumber(officialSpeed[t.completedRaces[Len(t.completedRaces)]])) :
         rows \in { ArrayOf([ i \in 1 .. Len(t.participants) |->
           [ averageSpeed |-> weeklyAverageSpeedOf(t.completedRaces[Len(t.completedRaces)],
                                                   t.participants[i].id),
             points |-> t.weekly[Len(t.completedRaces)][i],
             rowType |-> "participant",
             teamName |-> t.participants[i].teamName ] ]) } })

latestRaceScoreboard(t) ==
  LET latestRace == t.completedRaces[Len(t.completedRaces)]
      latestRaceExtremes == computeRaceExtremes(results[latestRace], driverGroupById)
  IN  [ raceId |-> latestRace,
        rows |-> latestRaceRows(t) \o
                 << [ averageSpeed |-> NULL, points |-> latestRaceExtremes.highest,
                      rowType |-> "benchmark_high", teamName |-> HIGHEST_POSSIBLE_SCORE ],
                    [ averageSpeed |-> NULL, points |-> latestRaceExtremes.lowest,
                      rowType |-> "benchmark_low", teamName |-> LOWEST_POSSIBLE_SCORE ] >> ]

LeagueSnapshotOf(t) ==
  IF Len(t.completedRaces) = 0
    THEN [ leaderboardRows |-> << >>, latestRaceScoreboard |-> NULL,
           raceColumns |-> t.completedRaces ]
    ELSE [ leaderboardRows |->
             Only({ StableSort(rows, [ i, j \in 1 .. Len(rows) |->
                                         compareFinalLeaderboardRows(rows[i], rows[j]) ]) :
                    rows \in { ArrayOf([ i \in 1 .. Len(t.participants) |->
                                           LeaderboardRow(t, i) ]) } }),
           latestRaceScoreboard |-> latestRaceScoreboard(t),
           raceColumns |-> t.completedRaces ]

buildLeagueScoringSnapshot == Only({ LeagueSnapshotOf(t) : t \in { LoopTables } })

\* ------------------------------------------ lib/scoring: picks by race
\* The races the picks-by-race tab offers: not archived, qualifying started,
\* latest qualifying first. Every race of the model lies in the season range,
\* so the fallback query returns what the first query returned.
availableRaces ==
  Only({ StableSort(started, [ i, j \in 1 .. Len(started) |->
                                 races[started[j]].qualifying_start_at
                                   - races[started[i]].qualifying_start_at ]) :
         started \in { SelectSeq([ i \in 1 .. Cardinality(DOMAIN races) |-> i ],
                         LAMBDA r : ~races[r].isArchived
                                      /\ races[r].qualifying_start_at <= clock) } })

\* availableRaces.find(...) ?? availableRaces[0]
selectedRaceOf(available, selectedRaceIdInput) ==
  IF \E i \in 1 .. Len(available) : available[i] = selectedRaceIdInput
    THEN selectedRaceIdInput
    ELSE available[1]

\* picksByUser.has(userId), of the selected race.
hasPick(r, userId) == \E i \in 1 .. Len(picks[r]) : picks[r][i].user_id = userId

\* picksByUser.get(userId), where the map has the key.
picksByUser(r, userId) ==
  LET own == SelectSeq(picks[r], LAMBDA pick : pick.user_id = userId)
  IN  own[Len(own)]

\* minimumPointsByGroup.get(group) ?? null
minimumPointsByGroup(r, group) ==
  LET posted == { asNumber(results[r][d]) :
                    d \in { x \in DOMAIN results[r] :
                              results[r][x] # NULL /\ driverGroupById[x] = group } }
  IN  IF posted = {} THEN NULL ELSE SetMin(posted)

\* Mutant: results count as posted for every race.
resultsPostedAlways(r) == TRUE

\* resultRows.length > 0
resultsPosted(r) == \E d \in DOMAIN results[r] : results[r][d] # NULL

driverCells(r, userId) ==
  ArrayOf([ index \in 1 .. 6 |->
    [ groupNumber |-> index,
      driverId |-> IF hasPick(r, userId) THEN picksByUser(r, userId).drivers[index] ELSE NULL,
      points |->
        IF resultsPosted(r)
          THEN IF hasPick(r, userId)
                 THEN asNumber(results[r][picksByUser(r, userId).drivers[index]])
                 ELSE minimumPointsByGroup(r, index)
          ELSE NULL ] ])

\* Mutant: a participant without a pick scores 0.
baseRowOfCellsNoFallback(r, participant, cells) ==
  [ averageSpeed |-> IF hasPick(r, participant.id)
                       THEN asNumber(picksByUser(r, participant.id).average_speed)
                       ELSE NULL,
    driverCells |-> cells,
    rank |-> NULL,
    teamName |-> participant.teamName,
    totalPoints |->
      IF resultsPosted(r)
        THEN IF ~hasPick(r, participant.id) THEN 0
             ELSE SumSeq([ k \in 1 .. 6 |-> asNumber(cells[k].points) ])
        ELSE NULL,
    userId |-> participant.id ]

baseRowOfCells(r, participant, cells) ==
  [ averageSpeed |-> IF hasPick(r, participant.id)
                       THEN asNumber(picksByUser(r, participant.id).average_speed)
                       ELSE NULL,
    driverCells |-> cells,
    rank |-> NULL,
    teamName |-> participant.teamName,
    totalPoints |->
      IF resultsPosted(r)
        THEN SumSeq([ k \in 1 .. 6 |-> asNumber(cells[k].points) ])
        ELSE NULL,
    userId |-> participant.id ]

baseRow(r, participant) ==
  Only({ baseRowOfCells(r, participant, cells) : cells \in { driverCells(r, participant.id) } })

\* rows of a race with results: the base rows ranked, points moved back to
\* totalPoints.
RankedPickRows(baseRows, officialWinningAverageSpeed) ==
  Only({ ArrayOf([ i \in 1 .. Len(ranked) |->
           [ averageSpeed |-> ranked[i].averageSpeed,
             driverCells |-> ranked[i].driverCells,
             rank |-> ranked[i].rank,
             teamName |-> ranked[i].teamName,
             totalPoints |-> ranked[i].points,
             userId |-> ranked[i].userId ] ]) :
         ranked \in { Only({ assignWeeklyRanks(withPoints, officialWinningAverageSpeed) :
                        withPoints \in { ArrayOf([ i \in 1 .. Len(baseRows) |->
                          [ averageSpeed |-> baseRows[i].averageSpeed,
                            driverCells |-> baseRows[i].driverCells,
                            teamName |-> baseRows[i].teamName,
                            totalPoints |-> baseRows[i].totalPoints,
                            userId |-> baseRows[i].userId,
                            points |-> asNumber(baseRows[i].totalPoints) ] ]) } }) } })

PicksSnapshotOfRows(available, selectedRace, baseRows) ==
  [ availableRaces |-> available,
    resultsPosted |-> resultsPosted(selectedRace),
    rows |->
      IF resultsPosted(selectedRace)
        THEN RankedPickRows(baseRows,
               IF officialSpeed[selectedRace] = NULL
                 THEN NULL ELSE asNumber(officialSpeed[selectedRace]))
        ELSE StableSort(baseRows, [ i, j \in 1 .. Len(baseRows) |->
                          localeCompare(baseRows[i].teamName, baseRows[j].teamName) ]),
    selectedRace |-> selectedRace ]

PicksSnapshotOf(available, participants, selectedRaceIdInput) ==
  IF Len(available) = 0
    THEN [ availableRaces |-> available, resultsPosted |-> FALSE,
           rows |-> << >>, selectedRace |-> NULL ]
    ELSE Only({ Only({ PicksSnapshotOfRows(available, selectedRace, baseRows) :
                         baseRows \in { ArrayOf([ i \in 1 .. Len(participants) |->
                                          baseRow(selectedRace, participants[i]) ]) } }) :
                selectedRace \in { selectedRaceOf(available, selectedRaceIdInput) } })

buildPicksByRaceSnapshot(selectedRaceIdInput) ==
  Only({ PicksSnapshotOf(available, participants, selectedRaceIdInput) :
           available \in { availableRaces }, participants \in { Participants } })

\* ------------------------------------- lib/scoring: participant analytics
\* A mean is kept as the pair << sum, count >>; NoMean is null.
NoMean == << >>
ZeroMean == << 0, 1 >>

average(values) ==
  IF Len(values) = 0 THEN NoMean ELSE << SumSeq(values), Len(values) >>

\* a - b on two means.
MeanMinus(a, b) == << a[1] * b[2] - b[1] * a[2], a[2] * b[2] >>

calculateOfficialSpeedDelta(guess, officialRaceAverageSpeed) ==
  IF guess = NULL \/ officialRaceAverageSpeed = NULL
    THEN NULL
    ELSE Abs(guess - officialRaceAverageSpeed)

\* weeklyRows of the k-th completed race.
weeklyRowsOf(t, k) ==
  ArrayOf([ i \in 1 .. Len(t.participants) |->
    [ averageSpeed |-> weeklyAverageSpeedOf(t.completedRaces[k], t.participants[i].id),
      racePoints |-> t.weekly[k][i],
      teamName |-> t.participants[i].teamName,
      userId |-> t.participants[i].id ] ])

AnalyticsRaceRowOf(t, k, userId, weeklyRows, weeklyRanks, officialRaceAverageSpeed) ==
  LET i == CHOOSE j \in 1 .. Len(weeklyRows) : weeklyRows[j].userId = userId
  IN  [ averageSpeedGuess |-> weeklyRows[i].averageSpeed,
        cumulativePoints |-> t.cumulative[k][i],
        officialRaceAverageSpeed |-> officialRaceAverageSpeed,
        raceAveragePoints |->
          << SumSeq([ j \in 1 .. Len(weeklyRows) |-> weeklyRows[j].racePoints ]),
             Len(weeklyRows) >>,
        raceId |-> t.completedRaces[k],
        submittedPick |-> weeklyRows[i].averageSpeed # NULL,
        tiebreakDelta |-> calculateOfficialSpeedDelta(weeklyRows[i].averageSpeed,
                                                      officialRaceAverageSpeed),
        weeklyFinish |-> standingByRaceUser(weeklyRanks, userId),
        weeklyPoints |-> weeklyRows[i].racePoints ]

AnalyticsRaceRowOfWeeklyRows(t, k, userId, weeklyRows, officialRaceAverageSpeed) ==
  Only({ AnalyticsRaceRowOf(t, k, userId, weeklyRows, weeklyRanks, officialRaceAverageSpeed) :
           weeklyRanks \in { assignWeeklyRaceRanks(weeklyRows, officialRaceAverageSpeed) } })

\* The row pushed onto raceRows for the k-th completed race.
AnalyticsRaceRow(t, k, userId) ==
  Only({ AnalyticsRaceRowOfWeeklyRows(t, k, userId, weeklyRows, officialRaceAverageSpeed) :
           weeklyRows \in { weeklyRowsOf(t, k) },
           officialRaceAverageSpeed \in
             { IF officialSpeed[t.completedRaces[k]] = NULL
                 THEN NULL ELSE asNumber(officialSpeed[t.completedRaces[k]]) } })

LastThree(s) == IF Len(s) <= 3 THEN s ELSE SubSeq(s, Len(s) - 2, Len(s))

AnalyticsSummaryOf(t, userId, raceRows) ==
  LET weeklyPoints == [ k \in 1 .. Len(raceRows) |-> raceRows[k].weeklyPoints ]
      weeklyFinishes == SelectSeq([ k \in 1 .. Len(raceRows) |-> raceRows[k].weeklyFinish ],
                                  LAMBDA value : value # NULL)
      tiebreakDeltas == SelectSeq([ k \in 1 .. Len(raceRows) |-> raceRows[k].tiebreakDelta ],
                                  LAMBDA value : value # NULL)
      averageWeeklyPoints ==
        IF average(weeklyPoints) = NoMean THEN ZeroMean ELSE average(weeklyPoints)
      lastThreeRaceAverage == average(LastThree(weeklyPoints))
  IN  [ averageFinish |-> average(weeklyFinishes),
        averageTiebreakDelta |-> average(tiebreakDeltas),
        averageWeeklyPoints |-> averageWeeklyPoints,
        completedRaces |-> Len(raceRows),
        currentStanding |-> standingByRaceUser(t.ranked[Len(t.completedRaces)], userId),
        fieldSize |-> Len(t.participants),
        lastThreeRaceAverage |-> lastThreeRaceAverage,
        momentumDelta |->
          IF lastThreeRaceAverage = NoMean
            THEN NoMean
            ELSE MeanMinus(lastThreeRaceAverage, averageWeeklyPoints),
        totalPoints |-> raceRows[Len(raceRows)].cumulativePoints,
        weeklyWins |-> Len(SelectSeq(weeklyFinishes, LAMBDA finish : finish = 1)) ]

AnalyticsSnapshotOf(t, userId) ==
  IF ~\E i \in 1 .. Len(t.participants) : t.participants[i].id = userId
    THEN [ threw |-> TRUE ]
    ELSE IF Len(t.completedRaces) = 0
      THEN [ threw |-> FALSE,
             raceRows |-> << >>,
             summary |-> [ averageFinish |-> NoMean,
                           averageTiebreakDelta |-> NoMean,
                           averageWeeklyPoints |-> ZeroMean,
                           completedRaces |-> 0,
                           currentStanding |-> NULL,
                           fieldSize |-> Len(t.participants),
                           lastThreeRaceAverage |-> NoMean,
                           momentumDelta |-> NoMean,
                           totalPoints |-> 0,
                           weeklyWins |-> 0 ],
             userId |-> userId ]
      ELSE Only({ [ threw |-> FALSE,
                    raceRows |-> raceRows,
                    summary |-> AnalyticsSummaryOf(t, userId, raceRows),
                    userId |-> userId ] :
                  raceRows \in { ArrayOf([ k \in 1 .. Len(t.completedRaces) |->
                                             AnalyticsRaceRow(t, k, userId) ]) } })

buildParticipantAnalyticsSnapshot(userId) ==
  Only({ AnalyticsSnapshotOf(t, userId) : t \in { LoopTables } })

\* ------------------------------------- the winner computation on its own
\* The picks, results, profiles and official speed of race 1 range over small
\* tables; picks come back from the query in any order, one per user.
WinnerSpeeds == { 8, 10, 12 }
WinnerLineups == { << 1, 3, 5, 7, 9, 11 >>, << 2, 3, 5, 7, 9, 11 >> }
WinnerPickRows ==
  { PickRow(u, s, d) : u \in Users, s \in WinnerSpeeds, d \in WinnerLineups }

WinnerPickTables ==
  UNION { { s \in [ 1 .. n -> WinnerPickRows ] :
              \A i, j \in 1 .. n : i < j => s[i].user_id # s[j].user_id } :
          n \in 0 .. MaxPicks }

WinnerResults ==
  { [ d \in Drivers |-> CASE d = 1 -> a [] d = 2 -> b [] d = 3 -> 5 [] OTHER -> NULL ] :
      a \in { NULL, 1, 2 }, b \in { NULL, 1, 2 } }

WinnerProfiles ==
  { WorkflowProfiles,
    [ u \in Users |-> 1 ],
    [ u \in Users |-> IF u = 3 THEN NULL ELSE u ] }

WinnerOfficialSpeeds == { NULL, 10 }

InitWinner ==
  /\ races = [ r \in RaceIds |-> NewRace ]
  /\ results \in { [ r \in RaceIds |-> IF r = 1 THEN res ELSE NoResults ] :
                     res \in WinnerResults }
  /\ picks \in { [ r \in RaceIds |-> IF r = 1 THEN tab ELSE << >> ] :
                   tab \in WinnerPickTables }
  /\ profiles \in WinnerProfiles
  /\ officialSpeed \in { [ r \in RaceIds |-> IF r = 1 THEN s ELSE NULL ] :
                           s \in WinnerOfficialSpeeds }
  /\ driverGroupById = WorkflowDrivers
  /\ clock = 0
  /\ cronPc = "idle" /\ cronNow = NULL /\ cronPending = << >> /\ cronIdx = 0
  /\ cronW = NULL /\ cronResult = NULL
  /\ admPc = "idle" /\ admRace = NULL /\ admArg = NULL /\ admW = NULL
  /\ admResult = AdminIdle("none", TRUE)
  /\ manualSince = [ r \in RaceIds |-> NULL ]
  /\ lastSave = [ r \in RaceIds |-> NULL ]
  /\ finCount = [ r \in RaceIds |-> 0 ]
  /\ cronDirty = FALSE
  /\ quiet = FALSE
  /\ SideIdle
  /\ rankIn = NoRanking
  /\ calcOut = << >>

CalculateWinner(r) ==
  /\ calcOut' = << r, WinnerOfRace(r) >>
  /\ UNCHANGED << races, results, dataVars, clock, cronVars, admVars, histVars,
                  cronDirty, quiet, rankIn, sideVars >>

NextWinner == \E r \in RaceIds : CalculateWinner(r)

SpecWinner == InitWinner /\ [][NextWinner]_vars

\* ---------------------------------------------- the weekly ranking on its own
\* Up to four rows, one per participant, with three point values, a guess
\* that may be missing and a target that may be missing; the rows are handed
\* over in any order.
RankingUsers == 1 .. 4
RankingNames == << 2, 1, 4, 3 >>
RankingPoints == { 30, 40, 50 }
RankingSpeeds == { NULL, 10, 12 }
RankingTargets == { NULL, 10 }

WeeklyRankingRow(userId, points, averageSpeed) ==
  [ userId |-> userId, teamName |-> RankingNames[userId],
    points |-> points, averageSpeed |-> averageSpeed ]

RankingTables ==
  UNION { { [ i \in 1 .. n |-> WeeklyRankingRow(i, f[i][1], f[i][2]) ] :
              f \in [ 1 .. n -> RankingPoints \X RankingSpeeds ] } :
          n \in 0 .. Cardinality(RankingUsers) }

Orders(n) == { p \in [ 1 .. n -> 1 .. n ] : \A i, j \in 1 .. n : i # j => p[i] # p[j] }

InOrder(s, p) == [ i \in 1 .. Len(s) |-> s[p[i]] ]

UserIds(s) == [ i \in 1 .. Len(s) |-> s[i].userId ]

\* No admin action and no cron run in progress: the processes as Init has them.
ProcessesIdle ==
  /\ clock = 0
  /\ cronPc = "idle" /\ cronNow = NULL /\ cronPending = << >> /\ cronIdx = 0
  /\ cronW = NULL /\ cronResult = NULL
  /\ admPc = "idle" /\ admRace = NULL /\ admArg = NULL /\ admW = NULL
  /\ admResult = AdminIdle("none", TRUE)
  /\ manualSince = [ r \in RaceIds |-> NULL ]
  /\ lastSave = [ r \in RaceIds |-> NULL ]
  /\ finCount = [ r \in RaceIds |-> 0 ]
  /\ cronDirty = FALSE
  /\ quiet = FALSE
  /\ SideIdle

InitRanking ==
  /\ races = [ r \in RaceIds |-> NewRace ]
  /\ results = [ r \in RaceIds |-> NoResults ]
  /\ picks = WorkflowPicks
  /\ profiles = WorkflowProfiles
  /\ officialSpeed = WorkflowOfficialSpeed
  /\ driverGroupById = WorkflowDrivers
  /\ ProcessesIdle
  /\ rankIn \in [ rows : RankingTables, target : RankingTargets ]
  /\ calcOut = << >>

rankingFixed == << races, results, dataVars, clock, cronVars, admVars, histVars,
                  cronDirty, quiet, rankIn, sideVars >>

\* buildOrderedWeeklyRows on the rows in the order p.
OrderRows(p) ==
  /\ calcOut' = [ op |-> "order",
                  rows |-> InOrder(rankIn.rows, p),
                  out |-> buildOrderedWeeklyRows(InOrder(rankIn.rows, p), rankIn.target) ]
  /\ UNCHANGED rankingFixed

\* buildOrderedWeeklyRows on the rows as loaded and on the rows in the order p.
OrderRowsTwice(p) ==
  /\ calcOut' = [ op |-> "twice",
                  first |-> UserIds(buildOrderedWeeklyRows(rankIn.rows, rankIn.target)),
                  second |-> UserIds(buildOrderedWeeklyRows(InOrder(rankIn.rows, p),
                                                           rankIn.target)) ]
  /\ UNCHANGED rankingFixed

\* assignWeeklyRanks on the rows in the order p.
RankRows(p) ==
  /\ calcOut' = [ op |-> "rank",
                  rows |-> InOrder(rankIn.rows, p),
                  out |-> assignWeeklyRanks(InOrder(rankIn.rows, p), rankIn.target) ]
  /\ UNCHANGED rankingFixed

\* Each call starts from the loaded rows: calcOut is still empty.
NextRanking ==
  /\ calcOut = << >>
  /\ \E p \in Orders(Len(rankIn.rows)) : OrderRows(p) \/ OrderRowsTwice(p) \/ RankRows(p)

SpecRanking == InitRanking /\ [][NextRanking]_vars

\* ------------------------------------------- the scoring views on their own
\* Three races in date order; the tables are drawn once and the three
\* snapshot builders read them.
ScoringRaceIds == 1 .. 3

LineupA == << 1, 3, 5, 7, 9, 11 >>
LineupB == << 2, 3, 5, 7, 9, 11 >>

\* No result rows; a row for every driver; rows for four drivers only, so
\* that picked drivers and whole groups are without a posted result.
ScoringResults ==
  << NoResults,
     [ d \in Drivers |-> 2 * d ],
     [ d \in Drivers |-> CASE d = 1 -> 5 [] d = 3 -> 4 [] d = 4 -> 9 [] d = 6 -> 0
                           [] OTHER -> NULL ] >>

ScoringResultTables ==
  { [ r \in ScoringRaceIds |-> ScoringResults[t[r]] ] : t \in [ ScoringRaceIds -> 1 .. 3 ] }

ScoringPickTables ==
  << << >>,
     << PickRow(1, 10, LineupA), PickRow(2, 12, LineupB) >>,
     << PickRow(1, 12, LineupB), PickRow(2, 10, LineupA), PickRow(3, 11, LineupA) >> >>

\* Two tables to choose from for each race.
ScoringPicks ==
  { [ r \in ScoringRaceIds |-> ScoringPickTables[t[r]] ] :
      t \in { f \in [ ScoringRaceIds -> 1 .. 3 ] : f[1] # 1 /\ f[2] # 3 /\ f[3] # 2 } }

\* Every profile named, the third one last or first by name, or the third
\* one with a blank team name.
ScoringProfiles ==
  { WorkflowProfiles,
    [ u \in Users |-> CASE u = 1 -> 2 [] u = 2 -> 3 [] OTHER -> 1 ],
    [ u \in Users |-> IF u = 3 THEN NULL ELSE u ] }

\* The groups as the picks were made, or after a reassignment that swaps
\* drivers 1 and 3 between groups 1 and 2 and leaves driver 4 without group.
ScoringDrivers ==
  { WorkflowDrivers,
    [ d \in Drivers |-> CASE d = 1 -> 2 [] d = 3 -> 1 [] d = 4 -> NULL
                          [] OTHER -> WorkflowDrivers[d] ] }

ScoringOfficialSpeed == [ r \in ScoringRaceIds |-> CASE r = 1 -> 10 [] r = 2 -> NULL [] OTHER -> 12 ]

\* At most one race archived; qualifying of races 1 and 2 has started, that
\* of race 3 may lie ahead.
ScoringRaces ==
  { [ r \in ScoringRaceIds |->
        [ NewRace EXCEPT !.isArchived = (r = archived) ]
          @@ [ qualifying_start_at |-> IF r = 3 /\ ahead THEN r ELSE r - 4 ] ] :
      archived \in { NULL, 2, 3 }, ahead \in BOOLEAN }

InitScoring ==
  /\ races \in ScoringRaces
  /\ results \in ScoringResultTables
  /\ picks \in ScoringPicks
  /\ profiles \in ScoringProfiles
  /\ officialSpeed = ScoringOfficialSpeed
  /\ driverGroupById \in ScoringDrivers
  /\ ProcessesIdle
  /\ rankIn = NoRanking
  /\ calcOut = << >>

LoadLeaderboard ==
  /\ calcOut' = [ op |-> "league", out |-> buildLeagueScoringSnapshot ]
  /\ UNCHANGED rankingFixed

LoadPicksByRace(selectedRaceIdInput) ==
  /\ calcOut' = [ op |-> "picksByRace",
                  input |-> selectedRaceIdInput,
                  out |-> buildPicksByRaceSnapshot(selectedRaceIdInput) ]
  /\ UNCHANGED rankingFixed

LoadAnalytics(userId) ==
  /\ calcOut' = [ op |-> "analytics",
                  userId |-> userId,
                  out |-> buildParticipantAnalyticsSnapshot(userId) ]
  /\ UNCHANGED rankingFixed

\* Each page load reads the tables as drawn: calcOut is still empty.
NextScoring ==
  /\ calcOut = << >>
  /\ \/ LoadLeaderboard
     \/ \E selectedRaceIdInput \in ScoringRaceIds \cup { NULL } :
          LoadPicksByRace(selectedRaceIdInput)
     \/ \E userId \in Users : LoadAnalytics(userId)

SpecScoring == InitScoring /\ [][NextScoring]_vars


\* ----------------------------------------------------------------- claims
\* A step in which the cron batch's finalizeRaceWinnerNow updated race r.
Threw(result) == result = ERROR \/ result = DB_ERROR

CronFinalized(r) ==
  /\ CronWrite
  /\ cronPending[cronIdx] = r
  /\ ~Threw(cronResult')

\* A step in which setRaceWinnerAction's finalizeRaceWinnerNow updated race r.
AdminFinalized(r) ==
  /\ AdminFinalizeWrite
  /\ admRace = r
  /\ admResult'.ok

\* C1: once a manual winner is in place (winnerIsManualOverride = TRUE), no
\* write of the cron finalizer changes winnerProfileId or winnerSource of
\* that race.
C1_FinalizerKeepsManualWinner ==
  [][ \A r \in RaceIds :
        (CronFinalized(r) /\ races[r].winnerIsManualOverride)
          => /\ races'[r].winnerProfileId = races[r].winnerProfileId
             /\ races'[r].winnerSource = races[r].winnerSource ]_vars

\* C2: after a manual winner W is set on a race, and until a recompute is
\* requested or another manual winner is set, winnerProfileId stays W and
\* winnerSource stays "manual".
C2_ManualWinnerStays ==
  \A r \in RaceIds :
    manualSince[r] # NULL
      => /\ races[r].winnerProfileId = manualSince[r]
         /\ races[r].winnerSource = "manual"

\* C3: in every state, for every race, winnerIsManualOverride = TRUE implies
\* winnerAutoEligibleAt = NULL and isArchived = TRUE implies
\* winnerAutoEligibleAt = NULL; and every successful finalizeRaceWinnerNow
\* leaves the race with winnerAutoEligibleAt = NULL.
EligibilityCleared ==
  \A r \in RaceIds :
    /\ races[r].winnerIsManualOverride => races[r].winnerAutoEligibleAt = NULL
    /\ races[r].isArchived => races[r].winnerAutoEligibleAt = NULL

C3_EligibilityCleared ==
  /\ []EligibilityCleared
  /\ [][ \A r \in RaceIds :
           (CronFinalized(r) \/ AdminFinalized(r))
             => races'[r].winnerAutoEligibleAt = NULL ]_vars

\* A race whose results were saved and scheduled, and which then got a manual
\* winner and was archived.
C3_Witness ==
  \E r \in RaceIds :
    /\ lastSave[r] # NULL
    /\ races[r].winnerIsManualOverride
    /\ races[r].isArchived
    /\ races[r].winnerAutoEligibleAt = NULL

\* C4: the update of scheduleRaceWinnerAutoCalculation and the update of
\* finalizeRaceWinnerNow, issued while the race is archived, throw and leave
\* the race row as it was, also when the race was archived after the
\* action's ensureRaceIsActive or after the cron's select.
C4_ArchivedRaceRefused ==
  [][ \A r \in RaceIds :
        /\ (AdminSchedule /\ admRace = r /\ races[r].isArchived)
             => /\ races' = races
                /\ admResult'.name = "schedule" /\ ~admResult'.ok
        /\ (AdminFinalizeWrite /\ admRace = r /\ races[r].isArchived)
             => /\ races' = races
                /\ admResult'.name = "finalize" /\ ~admResult'.ok
        /\ (CronWrite /\ cronPending[cronIdx] = r /\ races[r].isArchived)
             => /\ races' = races
                /\ Threw(cronResult') ]_vars

\* The schedule of a results save and the finalize of a cron run were both
\* refused on a race archived under them.
C4_Witness ==
  /\ admResult = AdminIdle("schedule", FALSE)
  /\ cronResult = ERROR
  /\ races[1].isArchived

\* The second of two finalizations of race r in a row, with no change of the
\* results or of the race since the first one read them.
SecondFinalize(r) ==
  /\ finCount[r] >= 1
  /\ \/ AdminFinalized(r)
     \/ CronFinalized(r) /\ ~cronDirty

\* The winner the finalization of this step computed.
ComputedWinner(r) == IF CronFinalized(r) THEN cronW ELSE admW

\* C5 as stated: the second of two finalizeRaceWinnerNow calls in a row
\* returns the same winner and leaves the race row exactly as the first did.
C5_SecondCallChangesNothing ==
  [][ \A r \in RaceIds :
        SecondFinalize(r)
          => /\ ComputedWinner(r) = races[r].winnerProfileId
             /\ races'[r] = races[r] ]_vars

\* C5 amended: the second call returns the same winner and leaves every field
\* of the race as the first call did, except winnerSetAt, which is the time
\* of the second call when there is a winner.
C5_SecondCallSameWinner ==
  [][ \A r \in RaceIds :
        SecondFinalize(r)
          => /\ ComputedWinner(r) = races[r].winnerProfileId
             /\ races'[r] = [ races[r] EXCEPT !.winnerSetAt =
                                IF ComputedWinner(r) # NULL THEN clock ELSE NULL ] ]_vars

\* A race with a winner was finalized twice in a row, the second time later.
C5_Witness ==
  \E r \in RaceIds :
    /\ finCount[r] = 2
    /\ races[r].winnerProfileId # NULL
    /\ races[r].winnerSetAt = clock
    /\ clock > 0

\* C6 as stated: every successful finalizeRaceWinnerNow leaves the race with
\* the computed winner, winnerSetAt = the time of the call, winnerSource =
\* "auto", no eligibility time and no override, whatever the winner.
C6_FinalizePersistsSetAtNow ==
  [][ \A r \in RaceIds :
        (CronFinalized(r) \/ AdminFinalized(r))
          => /\ races'[r].winnerProfileId = ComputedWinner(r)
             /\ races'[r].winnerSetAt = clock
             /\ races'[r].winnerSource = "auto"
             /\ races'[r].winnerAutoEligibleAt = NULL
             /\ races'[r].winnerIsManualOverride = FALSE ]_vars

\* C6 amended: winnerSetAt is the time of the call when a winner was
\* computed, and NULL when the computed winner is NULL.
C6_FinalizePersists ==
  [][ \A r \in RaceIds :
        (CronFinalized(r) \/ AdminFinalized(r))
          => /\ races'[r].winnerProfileId = ComputedWinner(r)
             /\ races'[r].winnerSetAt = IF ComputedWinner(r) # NULL THEN clock ELSE NULL
             /\ races'[r].winnerSource = "auto"
             /\ races'[r].winnerAutoEligibleAt = NULL
             /\ races'[r].winnerIsManualOverride = FALSE
             /\ races'[r].isArchived = FALSE ]_vars

\* Both cases were finalized: race 1 has picks and got a winner over a manual
\* one, race 2 has no pick and got none.
C6_Witness ==
  /\ finCount[1] >= 1 /\ races[1].winnerProfileId # NULL
  /\ manualSince[1] = NULL /\ lastSave[1] # NULL
  /\ finCount[2] >= 1 /\ races[2].winnerProfileId = NULL /\ lastSave[2] # NULL

\* The races a select at time now has to return, from the row's fields.
DueAt(now) ==
  { r \in RaceIds :
      /\ ~races[r].isArchived
      /\ ~races[r].winnerIsManualOverride
      /\ races[r].winnerAutoEligibleAt # NULL
      /\ races[r].winnerAutoEligibleAt <= now }

SelectedBy(pending) == { pending[i] : i \in 1 .. Len(pending) }

C9_FifteenMinutesAfterSave ==
  [][ \A r \in RaceIds :
        /\ (AdminSchedule /\ admRace = r /\ admResult'.ok)
             => races'[r].winnerAutoEligibleAt = clock + 15
        /\ (CronFinalized(r) /\ lastSave[r] # NULL)
             => clock >= lastSave[r] + 15 ]_vars

\* The picks of race r that lead on points, those of them closest to the
\* official speed (all equally far when there is none), and those of them
\* first by team name.
PostedPoints(r, d) == IF results[r][d] = NULL THEN 0 ELSE results[r][d]

PickPoints(r, i) ==
    PostedPoints(r, picks[r][i].drivers[1]) + PostedPoints(r, picks[r][i].drivers[2])
  + PostedPoints(r, picks[r][i].drivers[3]) + PostedPoints(r, picks[r][i].drivers[4])
  + PostedPoints(r, picks[r][i].drivers[5]) + PostedPoints(r, picks[r][i].drivers[6])

PickDistance(r, i) ==
  IF officialSpeed[r] = NULL
    THEN POSITIVE_INFINITY
    ELSE Abs(picks[r][i].average_speed - officialSpeed[r])

PickName(r, i) == TeamNameOf(profiles, picks[r][i].user_id)

PointsLeaders(r) ==
  { i \in 1 .. Len(picks[r]) :
      \A j \in 1 .. Len(picks[r]) : PickPoints(r, j) <= PickPoints(r, i) }

ClosestLeaders(r) ==
  { i \in PointsLeaders(r) :
      \A j \in PointsLeaders(r) : PickDistance(r, i) <= PickDistance(r, j) }

FirstNamedLeaders(r) ==
  { i \in ClosestLeaders(r) :
      \A j \in ClosestLeaders(r) : PickName(r, i) <= PickName(r, j) }

C11_FailedWriteThrows ==
  [][ /\ CronWrite =>
           LET r == cronPending[cronIdx] IN
             IF Threw(cronResult')
               THEN /\ races' = races
                    /\ cronPc' = "idle"
                    /\ handleCronRequest(cronResult').status = 500
                    /\ ~handleCronRequest(cronResult').ok
               ELSE /\ races'[r] = FinalizeUpdate(races[r], cronW, clock)
                    /\ cronPc' = "idle" =>
                         /\ handleCronRequest(cronResult').ok
                         /\ handleCronRequest(cronResult').processedRaceCount
                              = Len(cronPending)
      /\ AdminFinalizeWrite =>
           IF admResult'.ok
             THEN races'[admRace] = FinalizeUpdate(races[admRace], admW, clock)
             ELSE races' = races /\ admResult'.name = "finalize"
      /\ AdminSchedule =>
           IF admResult'.ok
             THEN races'[admRace] = ScheduleUpdate(races[admRace], clock)
             ELSE races' = races /\ admResult'.name = "schedule" ]_vars

\* The update of a cron run failed in the database: the run threw, the route
\* answers 500 and race 1 is still due, without a winner, as it was.
C11_Witness ==
  /\ cronResult = DB_ERROR
  /\ handleCronRequest(cronResult).status = 500
  /\ ~races[1].isArchived
  /\ races[1].winnerAutoEligibleAt # NULL
  /\ races[1].winnerAutoEligibleAt <= cronNow
  /\ races[1].winnerProfileId = NULL

\* The distance of a row's guess to the target; a missing guess or target
\* counts as infinitely far.
RowDistance(row, target) ==
  IF row.averageSpeed = NULL \/ target = NULL
    THEN POSITIVE_INFINITY
    ELSE Abs(row.averageSpeed - target)

IsLeader(row, rows) == \A j \in 1 .. Len(rows) : rows[j].points <= row.points

LeaderCount(rows) == Cardinality({ j \in 1 .. Len(rows) : IsLeader(rows[j], rows) })

LeadersBefore(a, b, target) ==
  \/ RowDistance(a, target) < RowDistance(b, target)
  \/ RowDistance(a, target) = RowDistance(b, target) /\ a.teamName <= b.teamName

RestBefore(a, b) ==
  \/ a.points > b.points
  \/ a.points = b.points /\ a.teamName <= b.teamName

\* out holds the rows of rows in the order the claim describes.
OrderedAsClaimed(rows, out, target) ==
  /\ Len(out) = Len(rows)
  /\ { out[i] : i \in 1 .. Len(out) } = { rows[i] : i \in 1 .. Len(rows) }
  /\ \A i, j \in 1 .. Len(out) : i < j =>
        /\ IsLeader(out[j], rows) => IsLeader(out[i], rows)
        /\ (IsLeader(out[i], rows) /\ IsLeader(out[j], rows))
             => /\ LeadersBefore(out[i], out[j], target)
                /\ target = NULL => out[i].teamName <= out[j].teamName
        /\ (~IsLeader(out[i], rows) /\ ~IsLeader(out[j], rows))
             => RestBefore(out[i], out[j])

\* C12: buildOrderedWeeklyRows returns a permutation of its input with the
\* rows of maximum points first; two or more such rows are ordered by
\* |guess - target| ascending, a missing guess or target counting as
\* +infinity, then by name ascending; the remaining rows follow by points
\* descending, then name ascending.  With no target the leaders are ordered
\* by name only; empty input gives empty output.
C12_OrderedRows ==
  (calcOut # << >> /\ calcOut.op = "order")
    => /\ OrderedAsClaimed(calcOut.rows, calcOut.out, rankIn.target)
       /\ calcOut.rows = << >> => calcOut.out = << >>

\* Four rows handed over in reverse of their final order: two leaders, the
\* one without a guess last of the two, and two other rows tied on points
\* and ordered by name.
C12_Witness ==
  /\ calcOut # << >> /\ calcOut.op = "order"
  /\ rankIn.target # NULL
  /\ Len(calcOut.rows) = 4
  /\ LeaderCount(calcOut.rows) = 2
  /\ calcOut.out[2].averageSpeed = NULL /\ calcOut.out[1].averageSpeed # NULL
  /\ calcOut.out[3].points = calcOut.out[4].points
  /\ \A i \in 1 .. 4 : calcOut.out[i] = calcOut.rows[5 - i]

C14_WeeklyRanks ==
  (calcOut # << >> /\ calcOut.op = "rank")
    => LET rows == calcOut.rows
           out == calcOut.out
           k == LeaderCount(rows)
           More(row) == Cardinality({ j \in 1 .. Len(rows) : rows[j].points > row.points })
       IN  /\ Len(out) = Len(rows)
           /\ { out[i].userId : i \in 1 .. Len(out) } = { rows[i].userId : i \in 1 .. Len(rows) }
           /\ \A i \in 1 .. Len(out) :
                IF k >= 2 /\ IsLeader(out[i], rows)
                  THEN /\ out[i].rank = i
                       /\ i <= k
                       /\ \A j \in 1 .. Len(out) :
                            (i < j /\ IsLeader(out[j], rows))
                              => LeadersBefore(out[i], out[j], rankIn.target)
                  ELSE out[i].rank = 1 + More(out[i])

\* Points 50, 40, 40, 30 got the ranks 1, 2, 2, 4.
C14_Witness ==
  /\ calcOut # << >> /\ calcOut.op = "rank"
  /\ Len(calcOut.out) = 4
  /\ [ i \in 1 .. 4 |-> calcOut.out[i].points ] = << 50, 40, 40, 30 >>
  /\ [ i \in 1 .. 4 |-> calcOut.out[i].rank ] = << 1, 2, 2, 4 >>

\* Points 50, 50, 50, 30 got the ranks 1, 2, 3, 4.
C14_WitnessTopTie ==
  /\ calcOut # << >> /\ calcOut.op = "rank"
  /\ Len(calcOut.out) = 4
  /\ [ i \in 1 .. 4 |-> calcOut.out[i].points ] = << 50, 50, 50, 30 >>
  /\ [ i \in 1 .. 4 |-> calcOut.out[i].rank ] = << 1, 2, 3, 4 >>

\* ------------------------------------------------------------ scoring views
LeagueLoaded == calcOut # << >> /\ calcOut.op = "league"

LeagueRows == calcOut.out.leaderboardRows

\* The races the leaderboard covers: not archived, at least one result row.
ScoredRaces == { r \in DOMAIN races : ~races[r].isArchived /\ results[r] # NoResults }

HasPickRow(r, userId) == \E i \in DOMAIN picks[r] : picks[r][i].user_id = userId

PickRowOf(r, userId) == picks[r][CHOOSE i \in DOMAIN picks[r] : picks[r][i].user_id = userId]

\* The least posted points among the drivers of a group, 0 without any.
GroupFloor(r, group) ==
  LET posted == { d \in Drivers : results[r][d] # NULL /\ driverGroupById[d] = group }
  IN  IF posted = {} THEN 0
      ELSE CHOOSE p \in { results[r][d] : d \in posted } :
             \A d \in posted : p <= results[r][d]

GroupFloorTotal(r) ==
  GroupFloor(r, 1) + GroupFloor(r, 2) + GroupFloor(r, 3)
    + GroupFloor(r, 4) + GroupFloor(r, 5) + GroupFloor(r, 6)

PickedPointsTotal(r, userId) ==
  LET d == PickRowOf(r, userId).drivers
  IN  PostedPoints(r, d[1]) + PostedPoints(r, d[2]) + PostedPoints(r, d[3])
        + PostedPoints(r, d[4]) + PostedPoints(r, d[5]) + PostedPoints(r, d[6])

WeeklyPointsAsClaimed(r, userId) ==
  IF HasPickRow(r, userId) THEN PickedPointsTotal(r, userId) ELSE GroupFloorTotal(r)

\* C15: for every race with posted results the leaderboard gives a participant
\* the sum of the posted points of the six picked drivers (0 for a driver
\* without a posted result) when there is a pick row, and otherwise the race's
\* group-floor total: the sum over the groups 1..6 of the least posted points
\* in the group, 0 for a group without a posted result.
C15_WeeklyPoints ==
  LeagueLoaded =>
    \A i \in 1 .. Len(LeagueRows) :
      /\ DOMAIN LeagueRows[i].raceBreakdown = ScoredRaces
      /\ \A r \in ScoredRaces :
           LeagueRows[i].raceBreakdown[r] = WeeklyPointsAsClaimed(r, LeagueRows[i].userId)

\* One leaderboard holds a participant without a pick row who got a group
\* floor above 0 from a race where a group has no posted result, and a
\* participant whose pick names a driver without a posted result.
C15_Witness ==
  /\ LeagueLoaded
  /\ \E r \in ScoredRaces :
       /\ \E group \in 1 .. 6 :
            ~\E d \in Drivers : results[r][d] # NULL /\ driverGroupById[d] = group
       /\ \E i, j \in 1 .. Len(LeagueRows) :
            /\ ~HasPickRow(r, LeagueRows[i].userId)
            /\ LeagueRows[i].raceBreakdown[r] > 0
            /\ HasPickRow(r, LeagueRows[j].userId)
            /\ \E k \in 1 .. 6 : results[r][PickRowOf(r, LeagueRows[j].userId).drivers[k]] = NULL
            /\ LeagueRows[j].raceBreakdown[r] > 0

\* The participants: the profiles with a team name.
NamedUsers == { u \in DOMAIN profiles : profiles[u] # NULL }

\* The weekly points of the scored races up to race r, added up.
TotalUpTo(r, userId) ==
  SumSeq([ q \in 1 .. Cardinality(DOMAIN races) |->
             IF q \in ScoredRaces /\ q <= r THEN WeeklyPointsAsClaimed(q, userId) ELSE 0 ])

\* v stands ahead of u after race r: more points in total, or as many in
\* total and more in race r.
AheadAfter(r, v, u) ==
  \/ TotalUpTo(r, v) > TotalUpTo(r, u)
  \/ /\ TotalUpTo(r, v) = TotalUpTo(r, u)
     /\ WeeklyPointsAsClaimed(r, v) > WeeklyPointsAsClaimed(r, u)

\* Competition rank: one more than the number of participants ahead.
StandingAsClaimed(r, userId) ==
  1 + Cardinality({ v \in NamedUsers : AheadAfter(r, v, userId) })

LatestScoredRace == CHOOSE r \in ScoredRaces : \A q \in ScoredRaces : q <= r

\* C16: over the races that are not archived and have a result, in date
\* order, totalPoints is the sum of the weekly points and of the raceBreakdown
\* values, and the standing after each race is the competition rank on
\* (total so far, points of that race), equal pairs sharing a rank and the
\* next rank skipping; without such a race the leaderboard is empty and
\* latestRaceScoreboard is null.
C16_TotalsAndStandings ==
  LeagueLoaded =>
    IF ScoredRaces = {}
      THEN /\ LeagueRows = << >>
           /\ calcOut.out.latestRaceScoreboard = NULL
      ELSE
        /\ { LeagueRows[i].userId : i \in 1 .. Len(LeagueRows) } = NamedUsers
        /\ Len(LeagueRows) = Cardinality(NamedUsers)
        /\ { calcOut.out.raceColumns[k] : k \in 1 .. Len(calcOut.out.raceColumns) } = ScoredRaces
        /\ \A k \in 1 .. Len(calcOut.out.raceColumns) - 1 :
             calcOut.out.raceColumns[k] < calcOut.out.raceColumns[k + 1]
        /\ \A i \in 1 .. Len(LeagueRows) :
             LET row == LeagueRows[i]
             IN  /\ row.totalPoints = TotalUpTo(LatestScoredRace, row.userId)
                 /\ row.totalPoints =
                      SumSeq([ q \in 1 .. Cardinality(DOMAIN races) |->
                                 IF q \in DOMAIN row.raceBreakdown
                                   THEN row.raceBreakdown[q] ELSE 0 ])
                 /\ row.currentStanding = StandingAsClaimed(LatestScoredRace, row.userId)
                 /\ \A t \in { LoopTables } : \A k \in 1 .. Len(t.completedRaces) :
                      standingByRaceUser(t.ranked[k], row.userId)
                        = StandingAsClaimed(t.completedRaces[k], row.userId)

\* After two or more races two participants share a rank and the third
\* stands two ranks below them.
C16_Witness ==
  /\ LeagueLoaded
  /\ Cardinality(ScoredRaces) >= 2
  /\ \E i, j, k \in 1 .. Len(LeagueRows) :
       /\ i # j
       /\ LeagueRows[i].currentStanding = 1
       /\ LeagueRows[j].currentStanding = 1
       /\ LeagueRows[k].currentStanding = 3

\* No race has a result: the leaderboard is empty.
C16_WitnessEmpty ==
  /\ LeagueLoaded
  /\ ScoredRaces = {}
  /\ \E r \in DOMAIN races : results[r] # NoResults

\* The scored race before the latest one; NULL when only one race is scored.
PreviousScoredRace ==
  IF Cardinality(ScoredRaces) < 2
    THEN NULL
    ELSE CHOOSE r \in ScoredRaces \ { LatestScoredRace } :
           \A q \in ScoredRaces \ { LatestScoredRace } : q <= r

\* C17: in every leaderboard row currentStanding is the rank after the latest
\* race with results, previousStanding the rank after the race before it or
\* null when there is none, change is previousStanding - currentStanding (0
\* without a previous standing), trend is up for a positive change, down for
\* a negative one and flat otherwise; the rows come by currentStanding
\* ascending.
C17_StandingMovement ==
  (LeagueLoaded /\ ScoredRaces # {}) =>
    /\ \A i \in 1 .. Len(LeagueRows) :
         LET row == LeagueRows[i]
         IN  /\ row.currentStanding = StandingAsClaimed(LatestScoredRace, row.userId)
             /\ row.previousStanding =
                  IF PreviousScoredRace = NULL
                    THEN NULL
                    ELSE StandingAsClaimed(PreviousScoredRace, row.userId)
             /\ row.change = IF row.previousStanding = NULL
                               THEN 0
                               ELSE row.previousStanding - row.currentStanding
             /\ row.trend = "up" <=> row.change > 0
             /\ row.trend = "down" <=> row.change < 0
             /\ row.trend = "flat" <=> row.change = 0
    /\ \A i \in 1 .. Len(LeagueRows) - 1 :
         LeagueRows[i].currentStanding <= LeagueRows[i + 1].currentStanding

\* Three races are scored; one participant moved up and another moved down,
\* and one of them stood elsewhere after the first race than after the second.
C17_Witness ==
  /\ LeagueLoaded
  /\ Cardinality(ScoredRaces) = 3
  /\ \E i, j \in 1 .. Len(LeagueRows) :
       /\ LeagueRows[i].trend = "up" /\ LeagueRows[i].change > 0
       /\ LeagueRows[j].trend = "down" /\ LeagueRows[j].change < 0
       /\ StandingAsClaimed(1, LeagueRows[i].userId) # LeagueRows[i].previousStanding

\* One race is scored: no previous standing, no movement.
C17_WitnessFirstRace ==
  /\ LeagueLoaded
  /\ Cardinality(ScoredRaces) = 1
  /\ Len(LeagueRows) = 3
  /\ \A i \in 1 .. Len(LeagueRows) :
       LeagueRows[i].previousStanding = NULL /\ LeagueRows[i].trend = "flat"

PicksByRaceLoaded == calcOut # << >> /\ calcOut.op = "picksByRace"

AnalyticsLoaded == calcOut # << >> /\ calcOut.op = "analytics" /\ ~calcOut.out.threw

\* The picks-by-race tab shows a race with posted results.
PostedRaceShown ==
  /\ PicksByRaceLoaded
  /\ Len(calcOut.out.availableRaces) > 0
  /\ calcOut.out.resultsPosted

\* raceBreakdown[r] of the participant on the leaderboard built from the same
\* tables.
LeagueBreakdown(league, r, userId) ==
  league.leaderboardRows[CHOOSE i \in 1 .. Len(league.leaderboardRows) :
                           league.leaderboardRows[i].userId = userId].raceBreakdown[r]

\* C18: the views built from the same tables agree on a participant's weekly
\* score for a race with posted results: totalPoints of the picks-by-race tab
\* is raceBreakdown[race] of the leaderboard, and weeklyPoints of the
\* analytics tab is raceBreakdown[race] of the leaderboard, for participants
\* without a pick and for picks naming drivers without a posted result too.
C18_ViewsAgree ==
  /\ PostedRaceShown =>
       \A league \in { buildLeagueScoringSnapshot } : \A r \in { calcOut.out.selectedRace } :
           /\ \E k \in 1 .. Len(league.raceColumns) : league.raceColumns[k] = r
           /\ { calcOut.out.rows[i].userId : i \in 1 .. Len(calcOut.out.rows) } = NamedUsers
           /\ \A i \in 1 .. Len(calcOut.out.rows) :
                calcOut.out.rows[i].totalPoints
                  = LeagueBreakdown(league, r, calcOut.out.rows[i].userId)
  /\ AnalyticsLoaded =>
       \A league \in { buildLeagueScoringSnapshot } : \A raceRows \in { calcOut.out.raceRows } :
           /\ [ k \in 1 .. Len(raceRows) |-> raceRows[k].raceId ] = league.raceColumns
           /\ \A k \in 1 .. Len(raceRows) :
                raceRows[k].weeklyPoints
                  = LeagueBreakdown(league, raceRows[k].raceId, calcOut.userId)

\* The tab shows a race where one participant without a pick got a group
\* floor above 0 and another one's pick names a driver without a posted
\* result.
C18_Witness ==
  /\ PostedRaceShown
  /\ LET r == calcOut.out.selectedRace
         rows == calcOut.out.rows
     IN  \E i, j \in 1 .. Len(rows) :
           /\ ~HasPickRow(r, rows[i].userId)
           /\ rows[i].totalPoints > 0
           /\ rows[i].totalPoints = GroupFloorTotal(r)
           /\ HasPickRow(r, rows[j].userId)
           /\ \E k \in 1 .. 6 : results[r][PickRowOf(r, rows[j].userId).drivers[k]] = NULL
           /\ rows[j].totalPoints > 0

\* The analytics tab shows a participant without a pick in a race whose
\* floor is above 0.
C18_WitnessAnalytics ==
  /\ AnalyticsLoaded
  /\ \E k \in 1 .. Len(calcOut.out.raceRows) :
       /\ ~HasPickRow(calcOut.out.raceRows[k].raceId, calcOut.userId)
       /\ calcOut.out.raceRows[k].weeklyPoints > 0

\* The picks-by-race tab shows a race.
RaceShown == PicksByRaceLoaded /\ Len(calcOut.out.availableRaces) > 0

\* C19: for a selected race without any result row the picks-by-race tab
\* reports resultsPosted = false and every row has totalPoints null, rank
\* null and points null in all six driver cells, the rows coming by team name
\* ascending; for a selected race with a result row every row has a
\* totalPoints and a rank.
C19_UnpostedResultsSuppressed ==
  RaceShown =>
    LET rows == calcOut.out.rows
    IN  IF results[calcOut.out.selectedRace] = NoResults
          THEN /\ calcOut.out.resultsPosted = FALSE
               /\ \A i \in 1 .. Len(rows) :
                    /\ rows[i].totalPoints = NULL
                    /\ rows[i].rank = NULL
                    /\ Len(rows[i].driverCells) = 6
                    /\ \A k \in 1 .. 6 : rows[i].driverCells[k].points = NULL
               /\ \A i \in 1 .. Len(rows) - 1 : rows[i].teamName < rows[i + 1].teamName
          ELSE /\ calcOut.out.resultsPosted = TRUE
               /\ \A i \in 1 .. Len(rows) :
                    /\ rows[i].totalPoints # NULL /\ rows[i].totalPoints >= 0
                    /\ rows[i].rank # NULL /\ rows[i].rank >= 1

\* The race shown has no result row, three participants, picks among them,
\* and another race has results.
C19_Witness ==
  /\ RaceShown
  /\ results[calcOut.out.selectedRace] = NoResults
  /\ Len(calcOut.out.rows) = 3
  /\ \E i \in 1 .. 3 : HasPickRow(calcOut.out.selectedRace, calcOut.out.rows[i].userId)
  /\ \E i \in 1 .. 3 : ~HasPickRow(calcOut.out.selectedRace, calcOut.out.rows[i].userId)
  /\ \E r \in DOMAIN races : results[r] # NoResults

\* The race shown has results for some drivers only and a participant
\* without a pick.
C19_WitnessPosted ==
  /\ RaceShown
  /\ results[calcOut.out.selectedRace] # NoResults
  /\ \E d \in Drivers : results[calcOut.out.selectedRace][d] = NULL
  /\ \E i \in 1 .. Len(calcOut.out.rows) :
       /\ ~HasPickRow(calcOut.out.selectedRace, calcOut.out.rows[i].userId)
       /\ calcOut.out.rows[i].rank >= 1

AnalyticsSummary == calcOut.out.summary

\* The races of the analytics tab in which the participant has a pick and
\* the race has an official speed: the values averageTiebreakDelta is over.
TiebreakRaces(userId) ==
  { r \in ScoredRaces : HasPickRow(r, userId) /\ officialSpeed[r] # NULL }

\* C20: every mean of the analytics summary (averageFinish,
\* averageTiebreakDelta, averageWeeklyPoints, lastThreeRaceAverage and
\* momentumDelta) is null when it is over no value, as for a participant
\* without a completed race; it is not 0 then.
C20_EmptyMeansAreNull ==
  AnalyticsLoaded =>
    /\ ScoredRaces = {} =>
         /\ AnalyticsSummary.averageFinish = NoMean
         /\ AnalyticsSummary.averageWeeklyPoints = NoMean
         /\ AnalyticsSummary.lastThreeRaceAverage = NoMean
         /\ AnalyticsSummary.momentumDelta = NoMean
    /\ TiebreakRaces(calcOut.userId) = {} => AnalyticsSummary.averageTiebreakDelta = NoMean

\* The same without averageWeeklyPoints: the four other means are null over
\* no value.
C20_OtherMeansAreNull ==
  AnalyticsLoaded =>
    /\ ScoredRaces = {} =>
         /\ AnalyticsSummary.averageFinish = NoMean
         /\ AnalyticsSummary.lastThreeRaceAverage = NoMean
         /\ AnalyticsSummary.momentumDelta = NoMean
    /\ TiebreakRaces(calcOut.userId) = {} => AnalyticsSummary.averageTiebreakDelta = NoMean

\* A participant without a completed race, and one with completed races but
\* no tiebreak distance in any of them.
C20_Witness ==
  /\ AnalyticsLoaded
  /\ ScoredRaces = {}
  /\ AnalyticsSummary.completedRaces = 0
  /\ AnalyticsSummary.averageWeeklyPoints = ZeroMean

C20_WitnessNoTiebreak ==
  /\ AnalyticsLoaded
  /\ ScoredRaces # {}
  /\ TiebreakRaces(calcOut.userId) = {}
  /\ AnalyticsSummary.averageFinish # NoMean

\* ============================================================= reminders
\* lib/pick-reminders: sendDuePickReminders, run by the reminder cron route.
MaxReminderRuns == 3
ReminderTickMinutes == 65
MaxReminderClock == 130

\* getReminderWindow: the key of the first window that holds the time left.
getReminderWindow(msUntilDeadline) ==
  LET hits == { i \in 1 .. Len(REMINDER_WINDOWS) :
                  /\ msUntilDeadline <= REMINDER_WINDOWS[i].maxMsUntilDeadline
                  /\ msUntilDeadline > REMINDER_WINDOWS[i].minExclusiveMsUntilDeadline }
  IN  IF hits = {} THEN "none" ELSE REMINDER_WINDOWS[SetMin(hits)].key

\* The race the first select returns: not archived, qualifying ahead, the
\* earliest first (NULL when there is none).
UpcomingRaceOf(rs, now) ==
  LET ahead == { r \in RaceIds : /\ rs[r].isArchived = FALSE
                                 /\ rs[r].qualifying_start_at > now }
  IN  IF ahead = {} THEN NULL
      ELSE CHOOSE r \in ahead :
             \A o \in ahead :
               \/ rs[r].qualifying_start_at < rs[o].qualifying_start_at
               \/ rs[r].qualifying_start_at = rs[o].qualifying_start_at /\ r <= o

\* The ids of a set as a list, ascending.
IdList(S) ==
  CHOOSE s \in [ 1 .. Cardinality(S) -> S ] :
    \A i, j \in 1 .. Cardinality(S) : i < j => s[i] < s[j]

\* participantsMissingPicks: the profiles without a pick row for the race.
participantsMissingPicks(raceId) ==
  IdList({ u \in Users : \A i \in 1 .. Len(picks[raceId]) : picks[raceId][i].user_id # u })

\* auth users: user 3 has no email address.
ReminderEmails == [ u \in Users |-> IF u = 3 THEN NULL ELSE u ]

\* profiles.phone_carrier: user 2 is on "other", user 3 has none.
ReminderCarriers == [ u \in Users |-> CASE u = 1 -> "verizon" [] u = 2 -> "other" [] OTHER -> "" ]

\* toSmsGatewayAddress for a valid phone number: NULL without a carrier or
\* for a carrier without a gateway domain.
toSmsGatewayAddress(userId, carrier) ==
  IF carrier = "" \/ carrier = "other" THEN NULL ELSE userId

ReminderRow(raceId, userId, reminderType, channel, status) ==
  [ race_id |-> raceId, user_id |-> userId, reminder_type |-> reminderType,
    channel |-> channel, delivery_status |-> status ]

ReminderKeyOf(run) == << run.raceId, run.missing[run.idx], run.reminderType, run.channel >>

\* The rows of the table that hold the key of the run's current slot.
ReminderRowsOf(rows, run) ==
  { row \in rows : /\ row.race_id = run.raceId
                   /\ row.user_id = run.missing[run.idx]
                   /\ row.reminder_type = run.reminderType
                   /\ row.channel = run.channel }

\* Where the loop goes on after the email part or the SMS part of a participant.
ReminderAfter(run, channel) ==
  IF channel = "email"
    THEN [ run EXCEPT !.pc = "sms", !.channel = "sms" ]
    ELSE IF run.idx < Len(run.missing)
           THEN [ run EXCEPT !.pc = "email", !.channel = "email", !.idx = run.idx + 1 ]
           ELSE ReminderRunIdle(run.runs + 1, "sent")

ReminderThrew(run) == ReminderRunIdle(run.runs + 1, "threw")

\* The runs started so far, finished or in progress.
ReminderRunsStarted ==
  LET started(p) == remRun[p].runs + (IF remRun[p].pc = "idle" THEN 0 ELSE 1)
  IN  started(1) + started(2)

reminderFixed == << races, results, dataVars, clock, cronVars, admVars, histVars,
                    cronDirty, quiet, pureVars, subVars, driverStanding >>

\* sendDuePickReminders up to the loop: the selects and the early returns.
ReminderStart(p) ==
  /\ remRun[p].pc = "idle"
  /\ ReminderRunsStarted < MaxReminderRuns
  /\ \E outcome \in DbOutcomes :
       \E run \in { remRun[p] }, raceId \in { UpcomingRaceOf(races, clock) } :
         remRun' = [ remRun EXCEPT ![p] =
           IF outcome = "error" THEN ReminderThrew(run)
           ELSE IF raceId = NULL THEN ReminderRunIdle(run.runs + 1, "no_upcoming_race")
           ELSE IF getReminderWindow(races[raceId].qualifying_start_at - clock) = "none"
             THEN ReminderRunIdle(run.runs + 1, "no_window_due")
           ELSE IF Len(participantsMissingPicks(raceId)) = 0
             THEN ReminderRunIdle(run.runs + 1, "no_missing_participants")
           ELSE [ pc |-> "email", raceId |-> raceId,
                  reminderType |-> getReminderWindow(races[raceId].qualifying_start_at - clock),
                  missing |-> participantsMissingPicks(raceId),
                  idx |-> 1, channel |-> "email", runs |-> run.runs, reason |-> "none" ] ]
  /\ UNCHANGED << remRows, delivered, reminderFixed >>

\* reserveReminderSlot returns an id: no row holds the key (else 23505 and null).
reserveReminderSlot(rows, run) == ReminderRowsOf(rows, run) = {}

\* The email or the SMS part of the loop body up to the send: a participant
\* without an address is skipped, else the slot is reserved.
ReminderReserve(p) ==
  /\ remRun[p].pc \in { "email", "sms" }
  /\ \E run \in { remRun[p] } :
       \E address \in { IF run.channel = "email"
                          THEN ReminderEmails[run.missing[run.idx]]
                          ELSE toSmsGatewayAddress(run.missing[run.idx],
                                                   ReminderCarriers[run.missing[run.idx]]) } :
         IF address = NULL
           THEN /\ remRun' = [ remRun EXCEPT ![p] = ReminderAfter(run, run.channel) ]
                /\ UNCHANGED remRows
           ELSE \E outcome \in DbOutcomes :
                  IF outcome = "error"
                    THEN /\ remRun' = [ remRun EXCEPT ![p] = ReminderThrew(run) ]
                         /\ UNCHANGED remRows
                    ELSE IF reserveReminderSlot(remRows, run)
                      THEN /\ remRows' = remRows \cup
                                { ReminderRow(run.raceId, run.missing[run.idx],
                                              run.reminderType, run.channel, "pending") }
                           /\ remRun' = [ remRun EXCEPT ![p].pc = "send" ]
                      ELSE /\ remRun' = [ remRun EXCEPT ![p] = ReminderAfter(run, run.channel) ]
                           /\ UNCHANGED remRows
  /\ UNCHANGED << delivered, reminderFixed >>

\* sendWithResend: the service accepts the message, or answers not ok and the
\* call throws.
ReminderSend(p) ==
  /\ remRun[p].pc = "send"
  /\ \E accepted \in BOOLEAN :
       IF accepted
         THEN /\ delivered' = [ delivered EXCEPT ![ReminderKeyOf(remRun[p])] = @ + 1 ]
              /\ remRun' = [ remRun EXCEPT ![p].pc = "mark" ]
         ELSE /\ remRun' = [ remRun EXCEPT ![p].pc = "release" ]
              /\ UNCHANGED delivered
  /\ UNCHANGED << remRows, reminderFixed >>

\* markReminderSent: the row becomes "sent", or the update fails and throws.
ReminderMark(p) ==
  /\ remRun[p].pc = "mark"
  /\ \E outcome \in DbOutcomes, run \in { remRun[p] } :
       IF outcome = "ok"
         THEN /\ remRows' = (remRows \ ReminderRowsOf(remRows, run)) \cup
                   { ReminderRow(run.raceId, run.missing[run.idx],
                                 run.reminderType, run.channel, "sent") }
              /\ remRun' = [ remRun EXCEPT ![p] = ReminderAfter(run, run.channel) ]
         ELSE /\ remRun' = [ remRun EXCEPT ![p].pc = "release" ]
              /\ UNCHANGED remRows
  /\ UNCHANGED << delivered, reminderFixed >>

\* The catch block: releaseReminderSlot deletes the reserved row (the row of
\* the reserved id is the one row that holds the key), then the run throws.
ReminderRelease(p) ==
  /\ remRun[p].pc = "release"
  /\ \E outcome \in DbOutcomes, run \in { remRun[p] } :
       /\ remRows' = IF outcome = "ok" THEN remRows \ ReminderRowsOf(remRows, run)
                                       ELSE remRows
       /\ remRun' = [ remRun EXCEPT ![p] = ReminderThrew(run) ]
  /\ UNCHANGED << delivered, reminderFixed >>

\* Time passes between and during the runs.
ReminderTick ==
  /\ clock + ReminderTickMinutes <= MaxReminderClock
  /\ clock' = clock + ReminderTickMinutes
  /\ UNCHANGED << races, results, dataVars, cronVars, admVars, histVars,
                  cronDirty, quiet, pureVars, sideVars >>

\* Race 1 qualifies at 130 and race 2 at 260; nobody has picked for race 1,
\* everybody for race 2.
ReminderRaces ==
  [ r \in RaceIds |-> NewRace @@ [ qualifying_start_at |-> 130 * r ] ]

ReminderPicks ==
  [ r \in RaceIds |->
      IF r = 1 THEN << >>
      ELSE [ u \in 1 .. 3 |-> PickRow(u, 10, << 1, 3, 5, 7, 9, 11 >>) ] ]

InitReminders ==
  /\ races = ReminderRaces
  /\ results = [ r \in RaceIds |-> NoResults ]
  /\ picks = ReminderPicks
  /\ profiles = WorkflowProfiles
  /\ officialSpeed = WorkflowOfficialSpeed
  /\ driverGroupById = WorkflowDrivers
  /\ ProcessesIdle
  /\ rankIn = NoRanking
  /\ calcOut = << >>

NextReminders ==
  \/ ReminderTick
  \/ \E p \in ReminderRuns : ReminderStart(p)
  \/ \E p \in ReminderRuns : ReminderReserve(p)
  \/ \E p \in ReminderRuns : ReminderSend(p)
  \/ \E p \in ReminderRuns : ReminderMark(p)
  \/ \E p \in ReminderRuns : ReminderRelease(p)

SpecReminders == InitReminders /\ [][NextReminders]_vars

\* C21: over any number of sendDuePickReminders runs, sequential or
\* overlapping, with failing sends and failing reminder-log updates, at most
\* one message is delivered per (race, user, reminder window, channel).
C21_AtMostOneReminder == \A k \in ReminderKeys : delivered[k] <= 1

\* ======================================================= pick submissions
\* app/picks/page.tsx saveWeeklyPickAction and the triggers on public.picks.
PickUsers == { 1, 2 }

\* Forms of signed-in users with a complete profile: two valid lineups for
\* race 1 and one for race 2, and one with a driver chosen twice.
PickForms ==
  { [ raceId |-> 1, averageSpeed |-> 10, drivers |-> LineupA ],
    [ raceId |-> 1, averageSpeed |-> 12, drivers |-> LineupB ],
    [ raceId |-> 2, averageSpeed |-> 10, drivers |-> LineupA ],
    [ raceId |-> 1, averageSpeed |-> 11, drivers |-> << 1, 1, 5, 7, 9, 11 >> ] }

\* parsePositiveInt / parsePositiveDecimal of a form field: null unless positive.
parsePositive(value) == IF value > 0 THEN value ELSE NULL

\* The checks of saveWeeklyPickAction before its upsert: the message of the
\* redirect, "" when the action goes on to the upsert.
saveWeeklyPickChecks(form, rs, now) ==
  IF \/ parsePositive(form.raceId) = NULL
     \/ parsePositive(form.averageSpeed) = NULL
     \/ \E g \in 1 .. Len(form.drivers) : parsePositive(form.drivers[g]) = NULL
    THEN "required"
  ELSE IF Cardinality({ form.drivers[g] : g \in 1 .. Len(form.drivers) }) # 6
    THEN "different drivers"
  ELSE IF form.raceId \notin DOMAIN rs THEN "not found"
  ELSE IF rs[form.raceId].isArchived THEN "archived"
  ELSE IF rs[form.raceId].qualifying_start_at <= now THEN "locked"
  ELSE ""

\* Mutant: the trigger function before the archive migration.
enforce_pick_deadlineBeforeArchive(race, now) ==
  IF race.qualifying_start_at <= now THEN "db locked" ELSE ""

\* trg_enforce_pick_deadline: the exception it raises, "" when it returns new.
enforce_pick_deadline(race, now) ==
  IF race.isArchived THEN "db archived"
  ELSE IF race.qualifying_start_at <= now THEN "db locked"
  ELSE ""

\* validate_pick_groups: the driver of column g is a driver of group g, and
\* the six drivers are distinct.
validate_pick_groups(drivers, groupById) ==
  IF \E g \in 1 .. 6 : drivers[g] \notin DOMAIN groupById \/ groupById[drivers[g]] # g
    THEN "db invalid group"
  ELSE IF Cardinality({ drivers[g] : g \in 1 .. 6 }) # 6 THEN "db distinct"
  ELSE ""

\* upsert with onConflict "user_id,race_id" on the rows of the race: the row
\* of the user is replaced, or a row is appended.
upsertPick(rows, userId, form) ==
  IF \E i \in 1 .. Len(rows) : rows[i].user_id = userId
    THEN [ i \in 1 .. Len(rows) |->
             IF rows[i].user_id = userId
               THEN PickRow(userId, form.averageSpeed, form.drivers)
               ELSE rows[i] ]
    ELSE Append(rows, PickRow(userId, form.averageSpeed, form.drivers))

picksFixed == << results, profiles, officialSpeed, driverGroupById, cronVars, admVars,
                 histVars, cronDirty, quiet, pureVars, remVars, driverStanding >>

\* saveWeeklyPickAction up to its upsert.
SubmitCheck(u, form) ==
  /\ subPc[u] # "checked"
  /\ \E message \in { saveWeeklyPickChecks(form, races, clock) } :
       subPc' = [ subPc EXCEPT ![u] = IF message = "" THEN "checked" ELSE message ]
  /\ subForm' = [ subForm EXCEPT ![u] = form ]
  /\ UNCHANGED << races, picks, clock, lastAccepted, picksFixed >>

\* The upsert, with the two before-insert-or-update triggers, and the redirect.
SubmitUpsert(u) ==
  /\ subPc[u] = "checked"
  /\ \E outcome \in DbOutcomes :
       \E form \in { subForm[u] } :
         \E message \in { IF outcome = "error" THEN "db error"
                          ELSE IF enforce_pick_deadline(races[form.raceId], clock) # ""
                            THEN enforce_pick_deadline(races[form.raceId], clock)
                          ELSE validate_pick_groups(form.drivers, driverGroupById) } :
           IF message = ""
             THEN /\ picks' = [ picks EXCEPT ![form.raceId] = upsertPick(@, u, form) ]
                  /\ lastAccepted' = [ lastAccepted EXCEPT ![form.raceId][u] = << form >> ]
                  /\ subPc' = [ subPc EXCEPT ![u] = "saved" ]
             ELSE /\ subPc' = [ subPc EXCEPT ![u] = message ]
                  /\ UNCHANGED << picks, lastAccepted >>
  /\ UNCHANGED << races, clock, subForm, picksFixed >>

\* updateRaceAction as far as picks depend on it: a new qualifying_start_at.
UpdateRaceQualifying(r, qualifyingStartAt) ==
  /\ races[r].qualifying_start_at # qualifyingStartAt
  /\ races' = [ races EXCEPT ![r].qualifying_start_at = qualifyingStartAt ]
  /\ UNCHANGED << picks, clock, subVars, picksFixed >>

\* Race 1 qualifies at 15 and race 2 at 30.
PickRaces == [ r \in RaceIds |-> NewRace @@ [ qualifying_start_at |-> 15 * r ] ]

InitPicks ==
  /\ races = PickRaces
  /\ results = [ r \in RaceIds |-> NoResults ]
  /\ picks = [ r \in RaceIds |-> << >> ]
  /\ profiles = WorkflowProfiles
  /\ officialSpeed = WorkflowOfficialSpeed
  /\ driverGroupById = WorkflowDrivers
  /\ ProcessesIdle
  /\ rankIn = NoRanking
  /\ calcOut = << >>

NextPicks ==
  \/ Tick
  \/ \E b \in BOOLEAN : SetRaceArchived(1, b)
  \/ UpdateRaceQualifying(1, 0)
  \/ \E u \in PickUsers, form \in PickForms : SubmitCheck(u, form)
  \/ \E u \in PickUsers : SubmitUpsert(u)

SpecPicks == InitPicks /\ [][NextPicks]_vars

\* The pick rows of a user for a race.
PickRowsOf(r, u) == { i \in 1 .. Len(picks[r]) : picks[r][i].user_id = u }

\* At most one row per (user, race), and it is the last accepted submission.
C22_OneRowLatest ==
  \A r \in RaceIds, u \in Users :
    /\ Cardinality(PickRowsOf(r, u)) <= 1
    /\ lastAccepted[r][u] = << >> => PickRowsOf(r, u) = {}
    /\ lastAccepted[r][u] # << >> =>
         \E i \in PickRowsOf(r, u) :
           picks[r][i] = PickRow(u, lastAccepted[r][u][1].averageSpeed,
                                 lastAccepted[r][u][1].drivers)

\* A step that changes the rows of a race is taken while the race is not
\* archived and its qualifying start is ahead.
C22_NoLateChange ==
  \A r \in RaceIds :
    picks'[r] # picks[r] =>
      /\ races[r].isArchived = FALSE
      /\ races[r].qualifying_start_at > clock

\* C22: after any sequence of pick submissions there is at most one pick row
\* per (user, race), holding the user's latest accepted submission; and no
\* submission at or after the race's qualifying start, or while the race is
\* archived, creates or changes a pick row.
C22_PicksTable == []C22_OneRowLatest /\ [][C22_NoLateChange]_vars

\* A second submission replaced the user's row, and a later one was refused
\* by the trigger because the race had been archived after the action's check.
C22_Witness ==
  \E u \in PickUsers :
    /\ subPc[u] = "db archived"
    /\ subForm[u].raceId = 1
    /\ lastAccepted[1][u] # << >>
    /\ lastAccepted[1][u][1].drivers = LineupB
    /\ subForm[u].drivers = LineupA
    /\ Len(picks[1]) = 2
    /\ picks[1][1] = PickRow(u, 12, LineupB)

\* A submission after the qualifying start passed while the action ran.
C22_WitnessLocked ==
  \E u \in PickUsers :
    /\ subPc[u] = "db locked"
    /\ PickRowsOf(subForm[u].raceId, u) = {}

\* ================================== a results save against the finalizer
\* The cron finalizer of Spec next to an admin who only saves and imports
\* results of race 1 (each save ending with scheduleRaceWinnerAutoCalculation).
NextSaves ==
  \/ Tick
  \/ \E in \in { in \in UpsertInputs : in[1] = 1 } : AdminSaveResult(in[1], in[2], in[3])
  \/ \E in \in ImportInputs : AdminImportResults(in[1], in[2])
  \/ AdminSchedule
  \/ CronSelect
  \/ CronCalc
  \/ CronWrite

SpecSaves == Init /\ [][NextSaves]_vars

\* Every save of the race was followed by its schedule, and nothing is running.
SavesCompleted(r) ==
  /\ cronPc = "idle"
  /\ admPc = "idle"
  /\ admResult.ok
  /\ lastSave[r] # NULL

\* C23: a results save is never lost by the finalizer: once the finalizer and
\* the save with its schedule have completed, in whatever order their reads
\* and writes interleaved, a race that is not archived, not overridden and has
\* no eligibility time holds the winner computed from the current picks and
\* results.
C23_SaveNotLost ==
  \A r \in { 1 } :
    ( /\ SavesCompleted(r)
      /\ races[r].isArchived = FALSE
      /\ races[r].winnerIsManualOverride = FALSE
      /\ races[r].winnerAutoEligibleAt = NULL )
      => races[r].winnerProfileId = WinnerOfRace(r)

\* ===================================================== the cron, fairly run
\* No statement of the step failed.
NoPersistenceError ==
  /\ cronResult' # DB_ERROR
  /\ "dbError" \notin DOMAIN admResult'

\* The two conditional updates with a database that does not fail.
AdminScheduleOk == AdminSchedule /\ NoPersistenceError

CronWriteOk == CronWrite /\ NoPersistenceError

\* The cron finalizer next to an admin who saves results of either race,
\* archives and unarchives race 1 and sets a manual winner.
NextFair ==
  \/ Tick
  \/ \E r \in ArchiveInputs, shouldArchive \in BOOLEAN : SetRaceArchived(r, shouldArchive)
  \/ \E in \in ManualInputs : AdminSetWinnerStart(in[1], in[2])
  \/ AdminManualWrite
  \/ \E in \in UpsertInputs : AdminSaveResult(in[1], in[2], in[3])
  \/ AdminScheduleOk
  \/ CronSelect
  \/ CronCalc
  \/ CronWriteOk

\* The workflow with a scheduler that keeps calling the cron route (a run
\* that has started goes on to its end) while time passes, and a database
\* that does not fail.
SpecFair ==
  /\ Init
  /\ [][NextFair]_vars
  /\ WF_vars(Tick)
  /\ WF_vars(CronSelect)
  /\ WF_vars(CronCalc)
  /\ WF_vars(CronWriteOk)

\* The last time the clock reaches: Tick adds TickMinutes while the sum stays
\* within MaxClock.
LastClock == (MaxClock \div TickMinutes) * TickMinutes

\* The race waits for the finalizer: its eligibility time is set, within the
\* time the clock reaches.
AwaitsFinalizer(r) ==
  /\ races[r].isArchived = FALSE
  /\ races[r].winnerIsManualOverride = FALSE
  /\ races[r].winnerAutoEligibleAt # NULL
  /\ races[r].winnerAutoEligibleAt <= LastClock

FinalizedByCron(r) ==
  /\ races[r].winnerSource = "auto"
  /\ races[r].winnerAutoEligibleAt = NULL

\* The race was archived or overridden, or new results moved its eligibility
\* time past the time the clock reaches.
TakenFromFinalizer(r) ==
  \/ races[r].isArchived
  \/ races[r].winnerIsManualOverride
  \/ races[r].winnerAutoEligibleAt > LastClock

\* C24: with the cron route called again and again and no persistence error,
\* every race that is not archived, not overridden and has an eligibility
\* time is eventually finalized (winnerSource = "auto", no eligibility time),
\* unless it is archived, overridden or given new results in the meantime;
\* this holds for each race whatever happens to the other races of a batch.
C24_EventuallyFinalized ==
  \A r \in RaceIds : AwaitsFinalizer(r) ~> (FinalizedByCron(r) \/ TakenFromFinalizer(r))

\* Race 2 was finalized by a cron run after race 1, scheduled no later than
\* race 2, had been archived and had made a run throw.
C24_Witness ==
  /\ races[1].isArchived
  /\ lastSave[1] # NULL /\ lastSave[2] # NULL /\ lastSave[1] <= lastSave[2]
  /\ finCount[2] >= 1
  /\ FinalizedByCron(2)
  /\ cronResult = 1

\* ============================================ the winner and the two views
\* C25: for a race with posted results and at least one pick, the winner
\* finalizeRaceWinnerNow persists (calculateRaceWinnerProfileId on the same
\* tables) is the participant the picks-by-race tab ranks first, and the first
\* participant row of the latest-race scoreboard when the race is the latest,
\* whoever has a pick and whoever has none.
C25_WinnerIsRankOne ==
  /\ (PostedRaceShown /\ Len(picks[calcOut.out.selectedRace]) >= 1) =>
       \A i \in 1 .. Len(calcOut.out.rows) :
         calcOut.out.rows[i].rank = 1
           => calcOut.out.rows[i].userId = WinnerOfRace(calcOut.out.selectedRace)
  /\ (LeagueLoaded /\ ScoredRaces # {} /\ Len(picks[LatestScoredRace]) >= 1) =>
       /\ calcOut.out.latestRaceScoreboard.raceId = LatestScoredRace
       /\ calcOut.out.latestRaceScoreboard.rows[1].teamName
            = profiles[WinnerOfRace(LatestScoredRace)]

\* ================================== results saves and the drivers' groups
\* Race 1 gets results for drivers 1 and 5 one by one, race 2 for drivers 2, 3
\* and 4 in one import.
StandingsUpsertInputs == { << 1, 1, 5 >>, << 1, 5, 1 >> }
StandingsImportInputs == { << 2, [ d \in { 2, 3, 4 } |-> 2 ] >> }

\* No results yet: the drivers stand in id order, in groups of four as the
\* last refresh left them.
InitStandings ==
  /\ races = [ r \in RaceIds |-> NewRace ]
  /\ results = [ r \in RaceIds |-> NoResults ]
  /\ picks = WorkflowPicks
  /\ profiles = WorkflowProfiles
  /\ officialSpeed = WorkflowOfficialSpeed
  /\ driverGroupById = [ d \in Drivers |-> driverGroupForIndex(d - 1) ]
  /\ ProcessesIdle
  /\ rankIn = NoRanking
  /\ calcOut = << >>

NextStandings ==
  \/ Tick
  \/ \E in \in StandingsUpsertInputs : AdminSaveResult(in[1], in[2], in[3])
  \/ \E in \in StandingsImportInputs : AdminImportResults(in[1], in[2])
  \/ AdminSchedule

SpecStandings == InitStandings /\ [][NextStandings]_vars

\* C26: saving or importing results of one race leaves every participant's
\* weekly points (the raceBreakdown entry) of every other race as they were,
\* for participants with a pick and without one, although the save recomputes
\* the championship points and reassigns the drivers' groups.
C26_OtherRacesKeepPoints ==
  [][ \A r \in RaceIds :
        results'[r] # results[r] =>
          \A before \in { buildLeagueScoringSnapshot } :
            \A after \in { buildLeagueScoringSnapshot' } :
              \A q \in (RaceIds \ { r }) \cap ScoredRaces : \A u \in NamedUsers :
                LeagueBreakdown(after, q, u) = LeagueBreakdown(before, q, u) ]_vars

\* ===================================== the latest race between its benchmarks
\* C27: in the latest-race scoreboard of buildLeagueScoringSnapshot every
\* participant row's points lie between the points of the "Lowest Possible
\* Score" row and those of the "Highest Possible Score" row.
C27_RowsBetweenBenchmarks ==
  (LeagueLoaded /\ ScoredRaces # {}) =>
    \A rows \in { calcOut.out.latestRaceScoreboard.rows } :
      \A i, high, low \in 1 .. Len(rows) :
        ( /\ rows[i].rowType = "participant"
          /\ rows[high].rowType = "benchmark_high"
          /\ rows[low].rowType = "benchmark_low" )
          => /\ rows[low].points <= rows[i].points
             /\ rows[i].points <= rows[high].points

\* ================================================== one weekly winner a race
\* The analytics snapshots of all three users, built from the same tables.
AnalyticsOfAll == ArrayOf([ v \in Users |-> buildParticipantAnalyticsSnapshot(v) ])

\* The participants whose analytics count the k-th completed race as a win.
WeeklyWinners(all, k) ==
  { v \in Users : ~all[v].threw /\ all[v].raceRows[k].weeklyFinish = 1 }

\* C28: for a race with posted results and at least one participant the
\* weekly ranks contain rank 1 exactly once: one row of the picks-by-race tab
\* (assignWeeklyRanks) has rank 1, and in the analytics (assignWeeklyRaceRanks)
\* exactly one participant has weeklyFinish 1 for each completed race, so the
\* participants' weeklyWins add up to the number of completed races.
C28_RankOneOnce ==
  /\ (PostedRaceShown /\ Len(calcOut.out.rows) >= 1) =>
       Cardinality({ i \in 1 .. Len(calcOut.out.rows) : calcOut.out.rows[i].rank = 1 }) = 1
  /\ AnalyticsLoaded =>
       \A all \in { AnalyticsOfAll } :
         /\ \A k \in 1 .. Len(calcOut.out.raceRows) :
              Cardinality(WeeklyWinners(all, k)) = 1
         /\ SumSeq([ v \in 1 .. Cardinality(Users) |->
                       IF all[v].threw THEN 0 ELSE all[v].summary.weeklyWins ])
              = Len(calcOut.out.raceRows)

\* The analytics of a participant who shares the highest points of a race
\* with its weekly winner and finished second by the tiebreak.
C28_Witness ==
  /\ AnalyticsLoaded
  /\ \E k \in 1 .. Len(calcOut.out.raceRows) :
       /\ calcOut.out.raceRows[k].weeklyFinish = 2
       /\ \E v \in Users \ { calcOut.userId } :
            \E other \in { buildParticipantAnalyticsSnapshot(v) } :
              /\ ~other.threw
              /\ other.raceRows[k].weeklyFinish = 1
              /\ other.raceRows[k].weeklyPoints = calcOut.out.raceRows[k].weeklyPoints
              /\ other.summary.weeklyWins >= 1

\* ============================================ winner writes and the archive
\* The winner columns of a race row.
WinnerFields(race) ==
  << race.winnerProfileId, race.winnerSource, race.winnerIsManualOverride,
     race.winnerSetAt, race.winnerAutoEligibleAt >>

\* C29: the write of setRaceWinnerAction (the manual update or the update of
\* finalizeRaceWinnerNow it calls) leaves every winner field of its race as
\* it was when the race is archived at the moment of the write, also when
\* setRaceArchivedAction archived it after the ensureRaceIsActive check.
C29_ArchivedWinnerUntouched ==
  [][ ( /\ admPc \in { "manual", "finalize" }
        /\ admPc' = "idle"
        /\ races[admRace].isArchived )
        => WinnerFields(races'[admRace]) = WinnerFields(races[admRace]) ]_vars

\* ========================================== the override flag and the source
\* C30: in every state and for every race winnerIsManualOverride is true
\* exactly when winnerSource is "manual".
C30_OverrideIffManual ==
  \A r \in RaceIds : races[r].winnerIsManualOverride = (races[r].winnerSource = "manual")

====
